---- MODULE Spec2Model ----
(***************************************************************************)
(* Session orchestration of scad (scoped-agent-dispatch): the container    *)
(* runtime, the runs directory, the source repositories and their clones,  *)
(* and the CLI commands and library functions that change them.            *)
(*                                                                         *)
(* Names (config names, tags, run IDs, branch names, container names) are  *)
(* sequences of dash-free segments: the string "a-b-t" is <<"a","b","t">>, *)
(* so the f-string f"{x}-{y}" is the concatenation x \o y.                  *)
(***************************************************************************)
EXTENDS Integers, Sequences, FiniteSets, TLC

VARIABLES
    containers,   \* container name -> [status, image, managed, config, branch, run_id]
    runs,         \* run id -> the run directory ~/.scad/runs/<run-id>
    sources,      \* source repo path -> [head, branches]
    parent,       \* commit -> parent commit (the commit graph of all repos)
    images,       \* image id -> tag, for the images that carry a tag
    creds,        \* state of ~/.claude/.credentials.json
    now,          \* wall clock, in minutes
    proc,         \* the `session start` invocation in flight, or idle
    last,         \* what the last finished command returned
    configs       \* config name -> the entry <name>.yml of ~/.scad/configs

vars == <<containers, runs, sources, parent, images, creds, now, proc, last, configs>>

(***************************************************************************)
(* Bounds of the model.                                                    *)
(***************************************************************************)
MaxClock   == 1     \* the clock runs over minutes 0..MaxClock
MaxEvents  == 3     \* lines an events.log may hold
MaxCommits == 2     \* commits made after the root commit
MaxSessions == 2    \* run directories that may exist at once

\* Branches a source repo may come to hold.
MaxBranches == 2

\* The highest suffix -k among the branches that exist before resolve_branch.
MaxSuffix == 2

\* The most repos in a config file that is loaded.
MaxRepos == 3

\* The latest hour, of the clock and of an expiry time, in a credentials file.
MaxHours == 3

(***************************************************************************)
(* Small helpers on functions with a dynamic domain.                       *)
(***************************************************************************)
EmptyFn == [x \in {} |-> 0]

SetKey(f, k, v) == [x \in (DOMAIN f) \cup {k} |-> IF x = k THEN v ELSE f[x]]

DropKey(f, k) == [x \in (DOMAIN f) \ {k} |-> f[x]]

DropKeys(f, ks) == [x \in (DOMAIN f) \ ks |-> f[x]]

IsPrefix(s, t) == Len(s) <= Len(t) /\ SubSeq(t, 1, Len(s)) = s

(***************************************************************************)
(* Configurations (config.py).                                             *)
(***************************************************************************)
RepoConfig(k, p, wd, wt) == [key |-> k, path |-> p, workdir |-> wd, worktree |-> wt]

\* One worktree repo.
CfgA == [name  |-> <<"a">>,
         repos |-> << RepoConfig("code", "s1", TRUE, TRUE) >>]

\* A dashed name, one worktree repo and one direct (read-only) mount.
CfgAB == [name  |-> <<"a", "b">>,
          repos |-> << RepoConfig("lib", "s1", TRUE, TRUE),
                       RepoConfig("data", "s3", FALSE, FALSE) >>]

\* Two worktree repos.
CfgM == [name  |-> <<"m">>,
         repos |-> << RepoConfig("code", "s1", TRUE, TRUE),
                      RepoConfig("lib", "s2", FALSE, TRUE) >>]

\* Named like CfgM: one cloned repo, then one mounted directly.
CfgMD == [name  |-> <<"m">>,
          repos |-> <<RepoConfig("code", "s1", TRUE, TRUE),
                      RepoConfig("lib", "s2", FALSE, FALSE)>>]

\* Only a direct mount: no clone is made for it.
CfgD == [name  |-> <<"d">>,
         repos |-> << RepoConfig("data", "s3", TRUE, FALSE) >>]

Configs == {CfgA, CfgAB, CfgM, CfgD}

Tags == { <<"t">>, <<"b", "t">> }

SourcePaths == {"s1", "s2", "s3"}

load_config(name) == CHOOSE c \in Configs : c.name = name

ConfigNames == {c.name : c \in Configs}

\* An entry of the config store: a regular file, or a symlink to a path.
StoreFile == [kind |-> "file", target |-> "self"]

StoreLink(path) == [kind |-> "link", target |-> path]

\* The store holds the configs the sessions are started from.
InitConfigs == [n \in ConfigNames |-> StoreFile]

(***************************************************************************)
(* Names derived from the clock (container.py).                            *)
(***************************************************************************)
TimeStr(t) == <<"1400", "1401", "1402", "1403">>[t + 1]

DateStr(t) == "Mar01"

generate_run_id(config_name, tag, t) == config_name \o tag \o <<DateStr(t), TimeStr(t)>>

generate_branch_name(config_name, tag, t) ==
    <<"scad">> \o config_name \o tag \o <<DateStr(t), TimeStr(t)>>

ContainerName(run_id) == <<"scad">> \o run_id

ImageTag(config_name) == <<"scad">> \o config_name

\* str.removeprefix("scad-")
RemovePrefix(name) ==
    IF Len(name) >= 2 /\ name[1] = "scad" THEN Tail(name) ELSE name

(***************************************************************************)
(* The run directory and its event log.                                    *)
(***************************************************************************)
EmptyDir == [events       |-> <<>>,
             hasWorktrees |-> FALSE,
             clones       |-> EmptyFn,
             claude       |-> FALSE,
             claudeJson   |-> FALSE]

Event(t, verb, details) == [ts |-> TimeStr(t), verb |-> verb, details |-> details]

\* events.log exists once a line was written to it.
HasEventsLog(rs, r) == r \in DOMAIN rs /\ rs[r].events # <<>>

\* A log_event that opens the file for writing instead of appending.
log_event_overwrite(rs, r, t, verb, details) ==
    LET d == IF r \in DOMAIN rs THEN rs[r] ELSE EmptyDir
    IN  SetKey(rs, r, [d EXCEPT !.events = <<Event(t, verb, details)>>])

log_event(rs, r, t, verb, details) ==
    LET d == IF r \in DOMAIN rs THEN rs[r] ELSE EmptyDir
    IN  SetKey(rs, r, [d EXCEPT !.events = Append(@, Event(t, verb, details))])

\* Room for one more line in the log of run r.
LogRoom(rs, r, n) == IF r \in DOMAIN rs THEN Len(rs[r].events) + n <= MaxEvents ELSE TRUE

\* Room for the run directory of run r.
SessionRoom(rs, r) ==
    IF r \in DOMAIN rs THEN TRUE ELSE Cardinality(DOMAIN rs) < MaxSessions

_container_exists(cs, run_id) == ContainerName(run_id) \in DOMAIN cs

\* A validation that accepts every well-formed run ID.
validate_run_id_format(cs, rs, run_id) == Len(run_id) >= 4

validate_run_id(cs, rs, run_id) == run_id \in DOMAIN rs \/ _container_exists(cs, run_id)

(***************************************************************************)
(* Credentials.                                                            *)
(***************************************************************************)
CredStates == {"missing", "expired", "valid"}

check_claude_auth(c) == c = "valid"

(***************************************************************************)
(* Git: commits, branches, clones.                                         *)
(***************************************************************************)
RootCommit == 0

Detached == <<"HEAD">>

Main == <<"main">>

RECURSIVE IsAncestor(_, _, _)
IsAncestor(par, a, b) ==
    IF a = b THEN TRUE
    ELSE IF b = RootCommit THEN FALSE
    ELSE IsAncestor(par, a, par[b])

\* git branch --list <branch>
check_branch_exists(srcs, path, branch) == branch \in DOMAIN srcs[path].branches

WorktreeRepos(config) ==
    {i \in 1..Len(config.repos) : config.repos[i].worktree}

\* git clone --local: the clone has the source's checked-out branch as its
\* only local branch, and every source branch as a remote-tracking ref.
GitClone(src) ==
    [head     |-> src.head,
     branches |-> (src.head :> src.branches[src.head]),
     remotes  |-> src.branches]


SuffixStr(n) == <<"2", "3", "4", "5", "6">>[n - 1]

\* A collision test that looks at the first repo of the config only.
BranchTakenInFirst(srcs, config, branch) ==
    config.repos[1].worktree /\ check_branch_exists(srcs, config.repos[1].path, branch)

BranchTaken(srcs, config, branch) ==
    \E i \in WorktreeRepos(config) :
        check_branch_exists(srcs, config.repos[i].path, branch)

RECURSIVE ResolveLoop(_, _, _, _, _)
ResolveLoop(srcs, config, base, branch, suffix) ==
    IF BranchTaken(srcs, config, branch)
    THEN ResolveLoop(srcs, config, base, base \o <<SuffixStr(suffix)>>, suffix + 1)
    ELSE branch

NoBranch == <<>>

NoRepo == ""

\* A collision search that consults every repo, cloned or mounted.
RECURSIVE FirstCollisionAnyRepo(_, _, _, _)
FirstCollisionAnyRepo(srcs, config, branch, i) ==
    IF i > Len(config.repos) THEN NoRepo
    ELSE IF check_branch_exists(srcs, config.repos[i].path, branch)
    THEN config.repos[i].key
    ELSE FirstCollisionAnyRepo(srcs, config, branch, i + 1)

\* The for loop over config.repos.items(): the first repo, in declaration
\* order, that is cloned and has the branch; NoRepo when there is none.
RECURSIVE FirstCollision(_, _, _, _)
FirstCollision(srcs, config, branch, i) ==
    IF i > Len(config.repos) THEN NoRepo
    ELSE IF config.repos[i].worktree
            /\ check_branch_exists(srcs, config.repos[i].path, branch)
    THEN config.repos[i].key
    ELSE FirstCollision(srcs, config, branch, i + 1)

\* resolve_branch: [ok, branch, repo]; ok = FALSE is the ClickException, which
\* names the repo.
resolve_branch(srcs, config, branch, tag, t) ==
    IF branch = NoBranch
    THEN [ok     |-> TRUE,
          branch |-> ResolveLoop(srcs, config,
                                 generate_branch_name(config.name, tag, t),
                                 generate_branch_name(config.name, tag, t), 2),
          repo   |-> NoRepo]
    ELSE [ok     |-> FirstCollision(srcs, config, branch, 1) = NoRepo,
          branch |-> branch,
          repo   |-> FirstCollision(srcs, config, branch, 1)]

(***************************************************************************)
(* create_clones: the repos are cloned one after the other; the first      *)
(* failing git command raises and leaves what was made so far.             *)
(***************************************************************************)
RECURSIVE CloneLoop(_, _, _, _, _)
CloneLoop(srcs, d, repos, i, branch) ==
    IF i > Len(repos) THEN [dir |-> d, ok |-> TRUE]
    ELSE LET repo == repos[i]
             made == GitClone(srcs[repo.path])
         IN  IF ~repo.worktree THEN CloneLoop(srcs, d, repos, i + 1, branch)
             ELSE IF repo.key \in DOMAIN d.clones
                  \* git clone: destination path already exists
                  THEN [dir |-> d, ok |-> FALSE]
             ELSE IF branch \in DOMAIN made.branches
                  \* git checkout -b: a branch of that name already exists
                  THEN [dir |-> [d EXCEPT !.clones = SetKey(@, repo.key, made)],
                        ok  |-> FALSE]
             ELSE CloneLoop(srcs,
                     [d EXCEPT !.clones = SetKey(@, repo.key,
                         [made EXCEPT !.head = branch,
                                      !.branches = SetKey(@, branch, made.branches[made.head])])],
                     repos, i + 1, branch)

create_clones(srcs, rs, config, branch, run_id) ==
    LET d0  == IF run_id \in DOMAIN rs THEN rs[run_id] ELSE EmptyDir
        res == CloneLoop(srcs, [d0 EXCEPT !.hasWorktrees = TRUE], config.repos, 1, branch)
    IN  IF res.ok
        THEN [runs |-> SetKey(rs, run_id, [res.dir EXCEPT !.claude = TRUE, !.claudeJson = TRUE]),
              ok   |-> TRUE]
        ELSE [runs |-> SetKey(rs, run_id, res.dir), ok |-> FALSE]

(***************************************************************************)
(* Images and containers.                                                  *)
(***************************************************************************)
TaggedImages(imgs, tag) == {i \in DOMAIN imgs : imgs[i] = tag}

image_exists(imgs, config) == TaggedImages(imgs, ImageTag(config.name)) # {}

UsedImageIds(cs, imgs) == (DOMAIN imgs) \cup {cs[n].image : n \in DOMAIN cs}

FreshImageId(cs, imgs) ==
    CHOOSE i \in 0..Cardinality(UsedImageIds(cs, imgs)) :
        /\ i \notin UsedImageIds(cs, imgs)
        /\ \A j \in 0..(i - 1) : j \in UsedImageIds(cs, imgs)

\* A successful build: the tag moves to the new image. The image that had the
\* tag is left without one; no operation lists an image that has no tag, so
\* it is dropped here.
build_image(cs, imgs, config) ==
    LET tag == ImageTag(config.name)
    IN  SetKey(DropKeys(imgs, TaggedImages(imgs, tag)), FreshImageId(cs, imgs), tag)

\* run_container: [ok, containers]; ok = FALSE is a DockerException
\* (no image for the tag, or the container name is taken).
run_container(cs, imgs, config, branch, run_id) ==
    LET name == ContainerName(run_id)
        tag  == ImageTag(config.name)
    IN  IF TaggedImages(imgs, tag) = {} \/ name \in DOMAIN cs
        THEN [ok |-> FALSE, containers |-> cs]
        ELSE [ok |-> TRUE,
              containers |-> SetKey(cs, name,
                  [status  |-> "running",
                   image   |-> CHOOSE i \in TaggedImages(imgs, tag) : TRUE,
                   managed |-> TRUE,
                   \* the credentials the entrypoint copies from the staging
                   \* mount: those `session start` has just found valid
                   credfile |-> "valid",
                   config  |-> config.name,
                   branch  |-> branch,
                   run_id  |-> run_id])]

(***************************************************************************)
(* `session start` (cli.py session_start, run_agent), one action per step: *)
(* the operator may interrupt the CLI between any two of them.             *)
(***************************************************************************)
Idle == [pc |-> "idle", config |-> CfgA, tag |-> <<>>, branch |-> <<>>,
         run_id |-> <<>>, rebuild |-> FALSE]

Result(cmd, run_id, exit, out) == [cmd |-> cmd, run_id |-> run_id, exit |-> exit, out |-> out]

NoResult == Result("none", <<>>, 0, <<>>)

\* A start that reports the failure of a step and goes on to the next one.
StartGoesOn(exit, step) ==
    /\ proc' = [proc EXCEPT !.pc = CASE step = "auth" -> "authed"
                                     [] step = "build" -> "built"
                                     [] step = "clones" -> "cloned"
                                     [] OTHER -> "launched"]
    /\ last' = Result("start", proc.run_id, exit, step)

\* The invocation ends with an error: exit code and the step that failed.
StartFailed(exit, step) ==
    /\ proc' = Idle
    /\ last' = Result("start", proc.run_id, exit, step)

\* session_start: load_config, resolve_branch.
SessionStart(config, tag, branch, rebuild) ==
    /\ proc.pc = "idle"
    /\ LET res == resolve_branch(sources, config, branch, tag, now)
       IN  IF res.ok
           THEN /\ proc' = [Idle EXCEPT !.pc = "resolved", !.config = config, !.tag = tag,
                                        !.branch = res.branch, !.rebuild = rebuild]
                /\ last' = NoResult
           ELSE /\ proc' = Idle
                /\ last' = Result("start", <<>>, 2, "branch")
    /\ UNCHANGED <<containers, runs, sources, parent, images, creds, now, configs>>

\* run_agent: check_claude_auth, generate_run_id.
StartAuth ==
    /\ proc.pc = "resolved"
    /\ LogRoom(runs, generate_run_id(proc.config.name, proc.tag, now), 1)
    /\ SessionRoom(runs, generate_run_id(proc.config.name, proc.tag, now))
    /\ IF check_claude_auth(creds)
       THEN /\ proc' = [proc EXCEPT !.pc = "authed",
                           !.run_id = generate_run_id(proc.config.name, proc.tag, now)]
            /\ last' = last
       ELSE StartFailed(2, "auth")
    /\ UNCHANGED <<containers, runs, sources, parent, images, creds, now, configs>>

\* run_agent: build the image if asked to or if there is none; ok = FALSE is
\* an error chunk in the build stream (docker.errors.BuildError).
StartBuild ==
    /\ proc.pc = "authed"
    /\ IF proc.rebuild \/ ~image_exists(images, proc.config)
       THEN \E ok \in BOOLEAN :
              IF ok
              THEN /\ images' = build_image(containers, images, proc.config)
                   /\ proc' = [proc EXCEPT !.pc = "built"]
                   /\ last' = last
              ELSE /\ images' = images
                   /\ StartFailed(3, "build")
       ELSE /\ proc' = [proc EXCEPT !.pc = "built"]
            /\ UNCHANGED <<images, last>>
    /\ UNCHANGED <<containers, runs, sources, parent, creds, now, configs>>

\* run_agent: create_clones; a failing git command is an uncaught
\* CalledProcessError.
StartClones ==
    /\ proc.pc = "built"
    /\ LET res == create_clones(sources, runs, proc.config, proc.branch, proc.run_id)
       IN  /\ runs' = res.runs
           /\ IF res.ok
              THEN /\ proc' = [proc EXCEPT !.pc = "cloned"]
                   /\ last' = last
              ELSE StartFailed(1, "clones")
    /\ UNCHANGED <<containers, sources, parent, images, creds, now, configs>>

\* run_agent: run_container.
StartRun ==
    /\ proc.pc = "cloned"
    /\ LET res == run_container(containers, images, proc.config, proc.branch, proc.run_id)
       IN  /\ containers' = res.containers
           /\ IF res.ok
              THEN /\ proc' = [proc EXCEPT !.pc = "launched"]
                   /\ last' = last
              ELSE StartFailed(3, "run")
    /\ UNCHANGED <<runs, sources, parent, images, creds, now, configs>>

\* session_start: log_event(run_id, "start", ...) once run_agent has returned.
StartLog ==
    /\ proc.pc = "launched"
    /\ runs' = log_event(runs, proc.run_id, now, "start", <<proc.config.name, proc.branch>>)
    /\ proc' = Idle
    /\ last' = Result("start", proc.run_id, 0, "ok")
    /\ UNCHANGED <<containers, sources, parent, images, creds, now, configs>>

\* The operator interrupts the CLI (terminal signal) between two steps.
Interrupt ==
    /\ proc.pc # "idle"
    /\ proc' = Idle
    /\ last' = Result("start", proc.run_id, 130, "interrupted")
    /\ UNCHANGED <<containers, runs, sources, parent, images, creds, now, configs>>

(***************************************************************************)
(* stop, clean, cleanup_clones (container.py).                             *)
(***************************************************************************)
\* container.stop(): a running container exits, any other keeps its status.
Stopped(c) == [c EXCEPT !.status = IF @ = "running" THEN "exited" ELSE @]

\* A stop that also removes the container.
stop_and_remove(cs, run_id) ==
    IF ContainerName(run_id) \in DOMAIN cs
    THEN [ok |-> TRUE, containers |-> DropKey(cs, ContainerName(run_id))]
    ELSE [ok |-> FALSE, containers |-> cs]

\* stop_container: [ok, containers]; it never removes the container.
stop_container(cs, run_id) ==
    LET name == ContainerName(run_id)
    IN  IF name \in DOMAIN cs
        THEN [ok |-> TRUE, containers |-> [cs EXCEPT ![name] = Stopped(@)]]
        ELSE [ok |-> FALSE, containers |-> cs]

\* A clean that removes the container only when it is not running.
clean_run_idle_containers(cs, run_id) ==
    IF ContainerName(run_id) \in DOMAIN cs /\ cs[ContainerName(run_id)].status = "running"
    THEN cs
    ELSE DropKey(cs, ContainerName(run_id))

\* clean_run, container stage: stop and remove the container if there is one.
clean_run_containers(cs, run_id) == DropKey(cs, ContainerName(run_id))

\* clean_run, directory stage: rmtree of the run directory if there is one.
clean_run_dirs(rs, run_id) == DropKey(rs, run_id)

\* A cleanup that removes the run directory, not only its worktrees.
cleanup_run_dir(rs, run_id) == DropKey(rs, run_id)

cleanup_clones(rs, run_id) ==
    IF run_id \in DOMAIN rs /\ rs[run_id].hasWorktrees
    THEN [rs EXCEPT ![run_id].hasWorktrees = FALSE, ![run_id].clones = EmptyFn]
    ELSE rs

\* containers.list(filters={"label": "scad.managed=true"}), without all=True.
ManagedRunning(cs) == {n \in DOMAIN cs : cs[n].managed /\ cs[n].status = "running"}

\* `session stop <run-id>`
SessionStop(run_id) ==
    /\ proc.pc = "idle"
    /\ LogRoom(runs, run_id, 1)
    /\ IF ~validate_run_id(containers, runs, run_id)
       THEN /\ last' = Result("stop", run_id, 1, "No session found")
            /\ UNCHANGED <<containers, runs>>
       ELSE LET res == stop_container(containers, run_id)
            IN  /\ containers' = res.containers
                /\ IF res.ok
                   THEN /\ runs' = log_event(runs, run_id, now, "stop", <<>>)
                        /\ last' = Result("stop", run_id, 0, "Stopped")
                   ELSE /\ runs' = runs
                        /\ last' = Result("stop", run_id, 1, "No running container")
    /\ UNCHANGED <<sources, parent, images, creds, now, proc, configs>>

\* `session clean <run-id>`
SessionClean(run_id) ==
    /\ proc.pc = "idle"
    /\ IF ~validate_run_id(containers, runs, run_id)
       THEN /\ last' = Result("clean", run_id, 1, "No session found")
            /\ UNCHANGED <<containers, runs>>
       ELSE /\ containers' = clean_run_containers(containers, run_id)
            /\ runs' = clean_run_dirs(runs, run_id)
            /\ last' = Result("clean", run_id, 0, "Cleaned")
    /\ UNCHANGED <<sources, parent, images, creds, now, proc, configs>>

\* clean_run called as a library function (as the tests call it).
CleanRun(run_id) ==
    /\ proc.pc = "idle"
    /\ containers' = clean_run_containers(containers, run_id)
    /\ runs' = clean_run_dirs(runs, run_id)
    /\ last' = Result("clean_run", run_id, 0, "returned")
    /\ UNCHANGED <<sources, parent, images, creds, now, proc, configs>>

\* cleanup_clones called as a library function (no CLI command calls it).
CleanupClones(run_id) ==
    /\ proc.pc = "idle"
    /\ runs' = cleanup_clones(runs, run_id)
    /\ last' = Result("cleanup_clones", run_id, 0, "returned")
    /\ UNCHANGED <<containers, sources, parent, images, creds, now, proc, configs>>

\* `session attach <run-id>`; headless: tmux has-session fails in the container.
SessionAttach(run_id, headless) ==
    /\ proc.pc = "idle"
    /\ LogRoom(runs, run_id, 1)
    /\ LET name == ContainerName(run_id)
       IN  IF ~validate_run_id(containers, runs, run_id)
           THEN /\ last' = Result("attach", run_id, 1, "No session found")
                /\ runs' = runs
           ELSE IF name \notin DOMAIN containers
           THEN /\ last' = Result("attach", run_id, 1, "No container found")
                /\ runs' = runs
           ELSE IF containers[name].status # "running"
           THEN /\ last' = Result("attach", run_id, 1, "Container not running")
                /\ runs' = runs
           ELSE IF headless
           THEN /\ last' = Result("attach", run_id, 1, "running headless")
                /\ runs' = runs
           ELSE /\ runs' = log_event(runs, run_id, now, "attach", <<>>)
                /\ last' = Result("attach", run_id, 0, "attached")
    /\ UNCHANGED <<containers, sources, parent, images, creds, now, proc, configs>>

(***************************************************************************)
(* Which config a run belongs to (container.py, cli.py).                   *)
(***************************************************************************)
Unknown == <<"?">>

StartEvents(events) == {i \in 1..Len(events) : events[i].verb = "start"}

\* _parse_events_log: the first `start` line gives config and branch.
_parse_events_log(rs, run_id) ==
    IF HasEventsLog(rs, run_id) /\ StartEvents(rs[run_id].events) # {}
    THEN LET i == CHOOSE i \in StartEvents(rs[run_id].events) :
                     \A j \in StartEvents(rs[run_id].events) : i <= j
             e == rs[run_id].events[i]
         IN  [run_id |-> run_id, config |-> e.details[1], branch |-> e.details[2],
              started |-> e.ts]
    ELSE [run_id |-> run_id, config |-> Unknown, branch |-> Unknown, started |-> ""]

NoConfig == <<>>

\* config_name_for_run: the event log first, else the first dash-segment.
config_name_for_run(rs, run_id) ==
    LET info == _parse_events_log(rs, run_id)
    IN  IF info.config # Unknown THEN info.config
        ELSE IF Len(run_id) >= 4 THEN <<run_id[1]>>
        ELSE NoConfig

(***************************************************************************)
(* `session info` and `session logs`: they read and change nothing.        *)
(***************************************************************************)
\* get_session_info, for a run directory that exists: the first start line,
\* the container's status (or removed / cleaned), the clones.
get_session_info(cs, rs, run_id) ==
    [config    |-> _parse_events_log(rs, run_id).config,
     branch    |-> _parse_events_log(rs, run_id).branch,
     container |-> IF _container_exists(cs, run_id)
                   THEN cs[ContainerName(run_id)].status
                   ELSE IF rs[run_id].hasWorktrees THEN "removed" ELSE "cleaned",
     clones    |-> DOMAIN rs[run_id].clones]

\* `session info <run-id>`
SessionInfo(run_id) ==
    /\ proc.pc = "idle"
    /\ last' = IF ~validate_run_id(containers, runs, run_id)
               THEN Result("info", run_id, 1, "No session found")
               ELSE IF run_id \notin DOMAIN runs
               THEN Result("info", run_id, 1, "No session found for")
               ELSE Result("info", run_id, 0, get_session_info(containers, runs, run_id))
    /\ UNCHANGED <<containers, runs, sources, parent, images, creds, now, proc, configs>>

\* `session logs <run-id>`; has_log: ~/.scad/logs/<run-id>.log exists.
SessionLogs(run_id, has_log) ==
    /\ proc.pc = "idle"
    /\ last' = IF ~validate_run_id(containers, runs, run_id)
               THEN Result("logs", run_id, 1, "No session found")
               ELSE IF ~has_log
               THEN Result("logs", run_id, 1, "No log file found")
               ELSE Result("logs", run_id, 0, "log")
    /\ UNCHANGED <<containers, runs, sources, parent, images, creds, now, proc, configs>>

(***************************************************************************)
(* `session status --all`: get_all_sessions (container.py).                *)
(***************************************************************************)
\* list_scad_containers: the managed containers Docker lists, the running ones.
list_scad_containers(cs) == ManagedRunning(cs)

\* get_all_sessions: the dict `sessions`, keyed by run ID. Stage 1 takes the
\* listed containers by their label, stage 2 the run directories not yet there.
get_all_sessions(cs, rs) ==
    LET listed == list_scad_containers(cs)
        stage1 == {cs[n].run_id : n \in listed}
        ByLabel(r) == cs[CHOOSE n \in listed : cs[n].run_id = r]
        has_clones(r) == r \in DOMAIN rs /\ rs[r].hasWorktrees
        State(r) ==
            IF _container_exists(cs, r)
            THEN IF cs[ContainerName(r)].status # "running" THEN "stopped" ELSE "running"
            ELSE IF has_clones(r) THEN "removed" ELSE "cleaned"
    IN  [r \in stage1 \cup DOMAIN rs |->
            IF r \in stage1
            THEN [run_id |-> r, config |-> ByLabel(r).config, branch |-> ByLabel(r).branch,
                  container |-> "running", clones |-> has_clones(r)]
            ELSE [run_id |-> r, config |-> _parse_events_log(rs, r).config,
                  branch |-> _parse_events_log(rs, r).branch,
                  container |-> State(r), clones |-> has_clones(r)]]

\* `session status --all`
SessionStatus ==
    /\ proc.pc = "idle"
    /\ last' = Result("status", <<>>, 0, get_all_sessions(containers, runs))
    /\ UNCHANGED <<containers, runs, sources, parent, images, creds, now, proc, configs>>

(***************************************************************************)
(* fetch_to_host and sync_from_host (container.py).                        *)
(***************************************************************************)
\* git -C <source> fetch <clone> b:b is refused when b is checked out in the
\* source, and when the update is not a fast-forward.
GitFetchOk(par, src, clone, b) ==
    /\ src.head # b
    /\ b \in DOMAIN src.branches => IsAncestor(par, src.branches[b], clone.branches[b])

\* A fetch loop that reports every attached clone and publishes nothing.
RECURSIVE FetchLoopUnpublished(_, _, _, _)
FetchLoopUnpublished(par, st, repos, i) ==
    IF i > Len(repos) THEN st
    ELSE IF repos[i].key \notin DOMAIN st.dir.clones
    THEN FetchLoopUnpublished(par, st, repos, i + 1)
    ELSE IF st.dir.clones[repos[i].key].head = Detached
    THEN FetchLoopUnpublished(par, st, repos, i + 1)
    ELSE FetchLoopUnpublished(par,
            [st EXCEPT !.results = Append(@, [repo |-> repos[i].key,
                                              branch |-> st.dir.clones[repos[i].key].head,
                                              source |-> repos[i].path])],
            repos, i + 1)

\* The loop of fetch_to_host over config.repos: st = [sources, dir, results, ok].
\* A failing git command raises: the loop ends there with ok = FALSE.
RECURSIVE FetchLoop(_, _, _, _)
FetchLoop(par, st, repos, i) ==
    IF i > Len(repos) THEN st
    ELSE LET key == repos[i].key
             src == st.sources[repos[i].path]
         IN  IF key \notin DOMAIN st.dir.clones THEN FetchLoop(par, st, repos, i + 1)
             ELSE LET clone  == st.dir.clones[key]
                      branch == clone.head
                  IN  IF branch = Detached THEN FetchLoop(par, st, repos, i + 1)
                      ELSE IF ~GitFetchOk(par, src, clone, branch)
                      THEN [st EXCEPT !.dir.clones[key].head = Detached, !.ok = FALSE]
                      ELSE FetchLoop(par,
                              [st EXCEPT
                                 !.sources[repos[i].path].branches =
                                     SetKey(@, branch, clone.branches[branch]),
                                 !.results = Append(@, [repo |-> key, branch |-> branch,
                                                        source |-> repos[i].path])],
                              repos, i + 1)

\* The details of a `fetch` or `sync` line: repo, branch (fetch only), source.
ResultDetails(r) ==
    IF "branch" \in DOMAIN r THEN << <<r.repo>>, r.branch, <<r.source>> >>
    ELSE << <<r.repo>>, <<r.source>> >>

RECURSIVE LogResults(_, _, _, _, _, _)
LogResults(rs, run_id, t, verb, results, i) ==
    IF i > Len(results) THEN rs
    ELSE LogResults(log_event(rs, run_id, t, verb, ResultDetails(results[i])),
                    run_id, t, verb, results, i + 1)

\* fetch_to_host: [raised, sources, runs, results]. raised is "no" when it
\* returns, "FileNotFoundError" or "CalledProcessError" when it raises.
fetch_to_host(par, srcs, rs, t, run_id, config) ==
    IF ~(run_id \in DOMAIN rs /\ rs[run_id].hasWorktrees)
    THEN [raised |-> "FileNotFoundError", sources |-> srcs, runs |-> rs, results |-> <<>>]
    ELSE LET st == FetchLoop(par, [sources |-> srcs, dir |-> rs[run_id],
                                   results |-> <<>>, ok |-> TRUE], config.repos, 1)
             rs1 == [rs EXCEPT ![run_id] = st.dir]
         IN  IF st.ok
             THEN [raised |-> "no", sources |-> st.sources,
                   runs |-> LogResults(rs1, run_id, t, "fetch", st.results, 1),
                   results |-> st.results]
             ELSE [raised |-> "CalledProcessError", sources |-> st.sources,
                   runs |-> rs1, results |-> <<>>]

\* A fetch into the local branch heads: +refs/heads/*:refs/heads/*.
GitSyncHeads(src, clone) ==
    [clone EXCEPT !.branches =
        [b \in (DOMAIN @) \cup (DOMAIN src.branches) |->
            IF b \in DOMAIN src.branches THEN src.branches[b] ELSE @[b]]]

\* git fetch +refs/heads/*:refs/remotes/origin/* (forced, nothing pruned).
GitSync(src, clone) ==
    [clone EXCEPT !.remotes =
        [b \in (DOMAIN @) \cup (DOMAIN src.branches) |->
            IF b \in DOMAIN src.branches THEN src.branches[b] ELSE @[b]]]

RECURSIVE SyncLoop(_, _, _, _)
SyncLoop(srcs, st, repos, i) ==
    IF i > Len(repos) THEN st
    ELSE LET key == repos[i].key
         IN  IF key \notin DOMAIN st.dir.clones THEN SyncLoop(srcs, st, repos, i + 1)
             ELSE SyncLoop(srcs,
                     [st EXCEPT !.dir.clones[key] = GitSync(srcs[repos[i].path], @),
                                !.results = Append(@, [repo |-> key,
                                                       source |-> repos[i].path])],
                     repos, i + 1)

sync_from_host(srcs, rs, t, run_id, config) ==
    IF ~(run_id \in DOMAIN rs /\ rs[run_id].hasWorktrees)
    THEN [raised |-> "FileNotFoundError", runs |-> rs, results |-> <<>>]
    ELSE LET st == SyncLoop(srcs, [dir |-> rs[run_id], results |-> <<>>], config.repos, 1)
         IN  [raised |-> "no",
              runs |-> LogResults([rs EXCEPT ![run_id] = st.dir], run_id, t, "sync",
                                  st.results, 1),
              results |-> st.results]


\* _config_for_run: [ok, config]; ok = FALSE when no config can be loaded.
_config_for_run(rs, run_id) ==
    LET name == config_name_for_run(rs, run_id)
    IN  IF name \in ConfigNames
        THEN [ok |-> TRUE, config |-> load_config(name)]
        ELSE [ok |-> FALSE, config |-> CfgA]

\* How many lines fetch_to_host / sync_from_host would append.
FetchLines(run_id) ==
    IF _config_for_run(runs, run_id).ok
    THEN Len(fetch_to_host(parent, sources, runs, now, run_id,
                           _config_for_run(runs, run_id).config).results)
    ELSE 0

\* The fetch leaves no source repo with more than MaxBranches branches.
BranchRoom(run_id) ==
    IF _config_for_run(runs, run_id).ok
    THEN \A p \in SourcePaths :
            Cardinality(DOMAIN fetch_to_host(parent, sources, runs, now, run_id,
                            _config_for_run(runs, run_id).config).sources[p].branches)
                <= MaxBranches
    ELSE TRUE

\* `code fetch <run-id>`
CodeFetch(run_id) ==
    /\ proc.pc = "idle"
    /\ LogRoom(runs, run_id, FetchLines(run_id))
    /\ BranchRoom(run_id)
    /\ IF ~validate_run_id(containers, runs, run_id)
       THEN /\ last' = Result("fetch", run_id, 1, "No session found")
            /\ UNCHANGED <<runs, sources>>
       ELSE LET cfg == _config_for_run(runs, run_id)
                res == fetch_to_host(parent, sources, runs, now, run_id, cfg.config)
            IN  IF ~cfg.ok
                THEN /\ last' = Result("fetch", run_id,
                                       IF config_name_for_run(runs, run_id) = NoConfig
                                       THEN 1 ELSE 2, "no config")
                     /\ UNCHANGED <<runs, sources>>
                ELSE /\ runs' = res.runs
                     /\ sources' = res.sources
                     /\ last' = Result("fetch", run_id,
                                       CASE res.raised = "no" -> 0
                                         [] res.raised = "FileNotFoundError" -> 2
                                         [] OTHER -> 1,
                                       [raised |-> res.raised, results |-> res.results])
    /\ UNCHANGED <<containers, parent, images, creds, now, proc, configs>>

\* `code sync <run-id>`
CodeSync(run_id) ==
    /\ proc.pc = "idle"
    /\ IF ~validate_run_id(containers, runs, run_id)
       THEN /\ last' = Result("sync", run_id, 1, "No session found")
            /\ runs' = runs
       ELSE LET cfg == _config_for_run(runs, run_id)
                res == sync_from_host(sources, runs, now, run_id, cfg.config)
            IN  IF ~cfg.ok
                THEN /\ last' = Result("sync", run_id,
                                       IF config_name_for_run(runs, run_id) = NoConfig
                                       THEN 1 ELSE 2, "no config")
                     /\ runs' = runs
                ELSE /\ LogRoom(runs, run_id, Len(res.results))
                     /\ runs' = res.runs
                     /\ last' = Result("sync", run_id,
                                       IF res.raised = "no" THEN 0 ELSE 2,
                                       [raised |-> res.raised, results |-> res.results])
    /\ UNCHANGED <<containers, sources, parent, images, creds, now, proc, configs>>

\* A refresh that looks for the container before it checks the credentials.
refresh_container_first(cs, c, run_id) ==
    IF ContainerName(run_id) \notin DOMAIN cs THEN "not found"
    ELSE IF cs[ContainerName(run_id)].status # "running" THEN "not running"
    ELSE IF c # "valid" THEN "Credentials expired"
    ELSE "ok"

\* refresh_credentials: "ok", or the error it raises; credentials first.
refresh_credentials(cs, c, run_id) ==
    IF ~check_claude_auth(c) THEN "Credentials expired"
    ELSE IF ContainerName(run_id) \notin DOMAIN cs THEN "not found"
    ELSE IF cs[ContainerName(run_id)].status # "running" THEN "not running"
    ELSE "ok"

\* container.exec_run("cp <staging mount> <credentials file>"): the mounted
\* host file replaces the container's file when cp succeeds; the exit code
\* of cp is not looked at.
exec_cp_credentials(cs, c, run_id, cp_ok) ==
    IF cp_ok THEN [cs EXCEPT ![ContainerName(run_id)].credfile = c] ELSE cs

\* `code refresh <run-id>`; cp_ok: the copy inside the container succeeds.
CodeRefresh(run_id, cp_ok) ==
    /\ proc.pc = "idle"
    /\ LogRoom(runs, run_id, 1)
    /\ IF ~validate_run_id(containers, runs, run_id)
       THEN /\ last' = Result("refresh", run_id, 1, "No session found")
            /\ UNCHANGED <<containers, runs>>
       ELSE LET res == refresh_credentials(containers, creds, run_id)
            IN  IF res = "ok"
                THEN /\ containers' = exec_cp_credentials(containers, creds, run_id, cp_ok)
                     /\ runs' = log_event(runs, run_id, now, "refresh", << <<"credentials">> >>)
                     /\ last' = Result("refresh", run_id, 0, res)
                ELSE /\ UNCHANGED <<containers, runs>>
                     /\ last' = Result("refresh", run_id, 1, res)
    /\ UNCHANGED <<sources, parent, images, creds, now, proc, configs>>

(***************************************************************************)
(* gc (container.py): three passes, in this order.                         *)
(***************************************************************************)
ManagedContainers(cs) == {n \in DOMAIN cs : cs[n].managed}

\* A pass 1 that does not look at the label.
OrphanedAnyLabel(cs, rs) ==
    {n \in DOMAIN cs : RemovePrefix(n) \notin DOMAIN rs \/ cs[n].status = "exited"}

\* Pass 1: managed containers whose run dir is missing or that have exited.
OrphanedContainers(cs, rs) ==
    {n \in ManagedContainers(cs) :
        RemovePrefix(n) \notin DOMAIN rs \/ cs[n].status = "exited"}

\* The image ids of all managed containers, collected during pass 1.
ActiveImageIds(cs) == {cs[n].image : n \in ManagedContainers(cs)}

HasWorktrees(d) == d.hasWorktrees /\ DOMAIN d.clones # {}

\* Pass 2: run dirs with no container and no entry under worktrees/.
DeadRunDirs(cs, rs) ==
    {r \in DOMAIN rs : ~_container_exists(cs, r) /\ ~HasWorktrees(rs[r])}

\* Pass 3: images with a scad- tag that no managed container of pass 1 used.
UnusedImages(imgs, active) ==
    {i \in DOMAIN imgs : imgs[i][1] = "scad" /\ i \notin active}

\* A gc that cleans whether or not it is forced.
gc_always_cleans(cs, rs, imgs, force) ==
    LET orphans == {n \in DOMAIN cs : cs[n].managed /\
                       (RemovePrefix(n) \notin DOMAIN rs \/ cs[n].status = "exited")}
        cs1     == DropKeys(cs, orphans)
        dead    == {r \in DOMAIN rs : ~_container_exists(cs1, r) /\ ~HasWorktrees(rs[r])}
        unused  == {i \in DOMAIN imgs : imgs[i][1] = "scad" /\
                       i \notin {cs[n].image : n \in {m \in DOMAIN cs : cs[m].managed}}}
    IN  [findings   |-> [orphaned_containers |-> orphans,
                         dead_run_dirs       |-> dead,
                         unused_images       |-> unused],
         containers |-> cs1,
         runs       |-> DropKeys(rs, dead),
         images     |-> DropKeys(imgs, unused)]

\* gc: [findings, containers, runs, images].
gc(cs, rs, imgs, force) ==
    LET orphans == OrphanedContainers(cs, rs)
        cs1     == IF force THEN DropKeys(cs, orphans) ELSE cs
        dead    == DeadRunDirs(cs1, rs)
        unused  == UnusedImages(imgs, ActiveImageIds(cs))
    IN  [findings   |-> [orphaned_containers |-> orphans,
                         dead_run_dirs       |-> dead,
                         unused_images       |-> unused],
         containers |-> cs1,
         runs       |-> IF force THEN DropKeys(rs, dead) ELSE rs,
         images     |-> IF force THEN DropKeys(imgs, unused) ELSE imgs]

\* `scad gc [--force]`
Gc(force) ==
    /\ proc.pc = "idle"
    /\ LET res == gc(containers, runs, images, force)
       IN  /\ containers' = res.containers
           /\ runs' = res.runs
           /\ images' = res.images
           /\ last' = Result("gc", <<>>, 0, [force |-> force, findings |-> res.findings])
    /\ UNCHANGED <<sources, parent, creds, now, proc, configs>>

(***************************************************************************)
(* The environment: the clock, the agent in the container, the operator    *)
(* working in a source repo, the credentials file.  `last` holds the       *)
(* outcome of a command only until the environment moves.                  *)
(***************************************************************************)
Tick ==
    /\ now < MaxClock
    /\ now' = now + 1
    /\ last' = NoResult
    /\ UNCHANGED <<containers, runs, sources, parent, images, creds, proc, configs>>

\* The agent finishes: its container exits.
ContainerExit(name) ==
    /\ name \in DOMAIN containers
    /\ containers[name].status = "running"
    /\ containers' = [containers EXCEPT ![name].status = "exited"]
    /\ last' = NoResult
    /\ UNCHANGED <<runs, sources, parent, images, creds, now, proc, configs>>

NewCommit == Cardinality(DOMAIN parent)

\* The agent commits on the checked-out branch of a clone.
CloneCommit(run_id, key) ==
    /\ run_id \in DOMAIN runs
    /\ key \in DOMAIN runs[run_id].clones
    /\ runs[run_id].clones[key].head # Detached
    /\ NewCommit <= MaxCommits
    /\ LET clone == runs[run_id].clones[key]
       IN  /\ parent' = SetKey(parent, NewCommit, clone.branches[clone.head])
           /\ runs' = [runs EXCEPT ![run_id].clones[key].branches[clone.head] = NewCommit]
    /\ last' = NoResult
    /\ UNCHANGED <<containers, sources, images, creds, now, proc, configs>>

\* The operator checks out another branch in a source repo.
HostCheckout(path, b) ==
    /\ b \in DOMAIN sources[path].branches
    /\ b # sources[path].head
    /\ sources' = [sources EXCEPT ![path].head = b]
    /\ last' = NoResult
    /\ UNCHANGED <<containers, runs, parent, images, creds, now, proc, configs>>

\* The operator commits on the checked-out branch of a source repo.
HostCommit(path) ==
    /\ NewCommit <= MaxCommits
    /\ parent' = SetKey(parent, NewCommit, sources[path].branches[sources[path].head])
    /\ sources' = [sources EXCEPT ![path].branches[sources[path].head] = NewCommit]
    /\ last' = NoResult
    /\ UNCHANGED <<containers, runs, images, creds, now, proc, configs>>

\* The credentials file is written, expires or is deleted.
CredsChange(c) ==
    /\ c \in CredStates
    /\ c # creds
    /\ creds' = c
    /\ last' = NoResult
    /\ UNCHANGED <<containers, runs, sources, parent, images, now, proc, configs>>


(***************************************************************************)
(* The system: every command of one operator, one at a time.               *)
(***************************************************************************)
\* A run ID the operator may type for which there is no session.
GhostRun == <<"x", "t", "Mar01", "1400">>

\* The run IDs an operator may pass to a command.
RunIds == (DOMAIN runs) \cup {RemovePrefix(n) : n \in DOMAIN containers} \cup {GhostRun}

RepoKeys == {"code", "lib", "data"}

UserBranches == {NoBranch, Main}

\* Every source repo has one commit, on main.
InitSources == [p \in SourcePaths |-> [head |-> Main, branches |-> (Main :> RootCommit)]]

Init ==
    /\ containers = EmptyFn
    /\ runs = EmptyFn
    /\ sources = InitSources
    /\ parent = (RootCommit :> RootCommit)
    /\ images = EmptyFn
    /\ creds = "valid"
    /\ now = 0
    /\ proc = Idle
    /\ last = NoResult
    /\ configs = InitConfigs

\* `session start` with the given configs, tags and --branch values.
StartCommand(cfgs, tags, branches, rebuilds) ==
    \E c \in cfgs, tag \in tags, b \in branches, rebuild \in rebuilds :
        SessionStart(c, tag, b, rebuild)

(***************************************************************************)
(* SpecStart: sequences of `session start` invocations within one minute   *)
(* of the wall clock, interrupted or not.                                  *)
(***************************************************************************)
NextStart ==
    \/ StartCommand({CfgA, CfgAB}, Tags, {NoBranch}, BOOLEAN)
    \/ StartAuth
    \/ StartBuild
    \/ StartClones
    \/ StartRun
    \/ StartLog
    \/ Interrupt

InitStart ==
    /\ Init!1 /\ Init!2 /\ Init!3 /\ Init!4 /\ Init!5 /\ Init!7 /\ Init!8 /\ Init!9
    /\ creds \in CredStates
    /\ configs = InitConfigs

SpecStart == InitStart /\ [][NextStart]_vars


Next ==
    \/ StartCommand({CfgA}, {<<"t">>}, {NoBranch}, {FALSE})
    \/ StartAuth
    \/ StartBuild
    \/ StartClones
    \/ StartRun
    \/ StartLog
    \/ Interrupt
    \/ \E r \in RunIds : SessionStop(r)
    \/ \E r \in RunIds : SessionClean(r)
    \/ \E r \in RunIds, headless \in BOOLEAN : SessionAttach(r, headless)
    \/ \E r \in RunIds : CodeFetch(r)
    \/ \E r \in RunIds : CodeSync(r)
    \/ \E r \in RunIds, cp_ok \in BOOLEAN : CodeRefresh(r, cp_ok)
    \/ \E r \in RunIds : CleanupClones(r)
    \/ \E force \in BOOLEAN : Gc(force)
    \/ \E n \in DOMAIN containers : ContainerExit(n)

Spec == Init /\ [][Next]_vars

\* Sessions of a config with two cloned repos, the agent committing in the
\* clones, the operator switching branches in the sources, and `code fetch`.
NextFetch ==
    \/ StartCommand({CfgM}, {<<"t">>}, {NoBranch}, {FALSE})
    \/ StartAuth
    \/ StartBuild
    \/ StartClones
    \/ StartRun
    \/ StartLog
    \/ \E r \in DOMAIN runs, k \in RepoKeys : CloneCommit(r, k)
    \/ \E p \in SourcePaths : \E b \in DOMAIN sources[p].branches : HostCheckout(p, b)
    \/ \E r \in RunIds : CodeFetch(r)

SpecFetch == Init /\ [][NextFetch]_vars

\* Sessions of the same config, the agent committing in the clones, the
\* operator committing in the sources, `code sync` and cleanup_clones.
NextSync ==
    \/ StartCommand({CfgM}, {<<"t">>}, {NoBranch}, {FALSE})
    \/ StartAuth
    \/ StartBuild
    \/ StartClones
    \/ StartRun
    \/ StartLog
    \/ \E r \in DOMAIN runs, k \in RepoKeys : CloneCommit(r, k)
    \/ \E p \in {"s1", "s2"} : HostCommit(p)
    \/ \E r \in RunIds : CodeSync(r)
    \/ \E r \in RunIds : CleanupClones(r)

SpecSync == Init /\ [][NextSync]_vars

\* Sessions of one config under two tags, on the generated branch or on a
\* branch the operator names, with `code fetch` and `session clean`.
NextApart ==
    \/ StartCommand({CfgA}, Tags, {NoBranch, <<"feat">>}, {FALSE})
    \/ StartAuth
    \/ StartBuild
    \/ StartClones
    \/ StartRun
    \/ StartLog
    \/ \E r \in RunIds : CodeFetch(r)
    \/ \E r \in RunIds : SessionClean(r)

SpecApart == Init /\ [][NextApart]_vars

(***************************************************************************)
(* resolve_branch as a function of the branches the source repos hold:     *)
(* every source repo starts with main and any of the pooled branches.      *)
(***************************************************************************)
Feat == <<"feat">>

BranchBase == generate_branch_name(CfgM.name, <<"t">>, 0)

BranchPool == {BranchBase, Feat} \cup {BranchBase \o <<SuffixStr(k)>> : k \in 2..MaxSuffix}

InitBranch ==
    /\ \E held \in [SourcePaths -> SUBSET BranchPool] :
          sources = [p \in SourcePaths |->
                        [head |-> Main,
                         branches |-> [b \in {Main} \cup held[p] |-> RootCommit]]]
    /\ containers = EmptyFn
    /\ runs = EmptyFn
    /\ parent = (RootCommit :> RootCommit)
    /\ images = EmptyFn
    /\ creds = "valid"
    /\ configs = InitConfigs
    /\ now = 0
    /\ proc = Idle
    /\ last = NoResult

\* resolve_branch(config, branch, tag) for the tag "t".
ResolveBranch(config, branch) ==
    /\ last' = Result("resolve", <<>>,
                      IF resolve_branch(sources, config, branch, <<"t">>, now).ok THEN 0 ELSE 2,
                      [config |-> config, asked |-> branch,
                       res |-> resolve_branch(sources, config, branch, <<"t">>, now)])
    /\ UNCHANGED <<containers, runs, sources, parent, images, creds, now, proc, configs>>

\* CfgM clones two repos; CfgMD clones the first and mounts the second.
NextBranch ==
    \E config \in {CfgM, CfgMD}, branch \in {NoBranch, Feat} : ResolveBranch(config, branch)

SpecBranch == InitBranch /\ [][NextBranch]_vars

(***************************************************************************)
(* Loading a config file (config.py).  A YAML repo entry gives `workdir`   *)
(* and `worktree` or leaves them out; the i-th entry has the i-th key.     *)
(***************************************************************************)
RawKeys == <<"code", "lib", "data", "docs">>

RawFlag == {"unset", "true", "false"}

\* `worktree: true` is the default written out; it is left to the default here.
RawRepo == [workdir : RawFlag, worktree : {"unset", "false"}]

RawRepos == UNION {[1..n -> RawRepo] : n \in 0..MaxRepos}

\* A pydantic field: the value given, or the field's default.
FieldValue(flag, default) == IF flag = "unset" THEN default ELSE flag = "true"

\* RepoConfig(**raw): workdir defaults to False, worktree to True.
RepoConfigOf(k, raw) ==
    RepoConfig(k, "s1", FieldValue(raw.workdir, FALSE), FieldValue(raw.worktree, TRUE))

workdirs(repos) == {i \in 1..Len(repos) : repos[i].workdir}

\* A validator that accepts any config with a workdir repo.
validate_workdir_some(repos) == Cardinality(workdirs(repos)) >= 1

\* ScadConfig.validate_workdir: len(workdirs) != 1 raises ValueError.
validate_workdir(repos) == Cardinality(workdirs(repos)) = 1

\* ScadConfig(**raw): the fields are built, then the model validator runs.
ScadConfig(name, raw) ==
    LET repos == [i \in 1..Len(raw) |-> RepoConfigOf(RawKeys[i], raw[i])]
    IN  IF validate_workdir(repos)
        THEN [ok |-> TRUE, config |-> [name |-> name, repos |-> repos]]
        ELSE [ok |-> FALSE, config |-> [name |-> NoConfig, repos |-> <<>>]]

\* load_config on a file with the repos `raw`: the config, or the error.
LoadConfig(raw) ==
    /\ proc.pc = "idle"
    /\ LET res == ScadConfig(<<"x">>, raw)
       IN  last' = Result("load", <<>>, IF res.ok THEN 0 ELSE 1,
                          [raw |-> raw, config |-> res.config])
    /\ UNCHANGED <<containers, runs, sources, parent, images, creds, now, proc, configs>>

NextLoad == \E raw \in RawRepos : LoadConfig(raw)

SpecLoad == Init /\ [][NextLoad]_vars

(***************************************************************************)
(* `config add` and `config remove` (cli.py).  The files an operator may   *)
(* register, by path: two valid configs named x, an invalid one named x    *)
(* (no workdir repo) and a valid one named y.  "gone" is the path of a     *)
(* file that was registered and has been deleted since.                    *)
(***************************************************************************)
RawWorkdir == << [workdir |-> "true", worktree |-> "unset"] >>

RawNoWorkdir == << [workdir |-> "unset", worktree |-> "unset"] >>

ExternalFiles ==
    ("p1" :> [name |-> <<"x">>, repos |-> RawWorkdir]) @@
    ("p2" :> [name |-> <<"x">>, repos |-> RawWorkdir]) @@
    ("p3" :> [name |-> <<"x">>, repos |-> RawNoWorkdir]) @@
    ("p4" :> [name |-> <<"y">>, repos |-> RawWorkdir])

StoreNames == {<<"x">>, <<"y">>}

\* Path.exists() on the entry: it follows a symlink to its target.
LinkExists(store, name) ==
    IF name \notin DOMAIN store THEN FALSE
    ELSE IF store[name].kind = "file" THEN TRUE
    ELSE store[name].target \in DOMAIN ExternalFiles

\* config_add: [store, exit, msg].
config_add(store, path) ==
    LET cfg  == ScadConfig(ExternalFiles[path].name, ExternalFiles[path].repos)
        name == cfg.config.name
    IN  IF ~cfg.ok THEN [store |-> store, exit |-> 2, msg |-> "Invalid config"]
        ELSE IF LinkExists(store, name)
        THEN IF store[name].kind = "link" /\ store[name].target = path
             THEN [store |-> store, exit |-> 0, msg |-> "Already registered"]
             ELSE [store |-> store, exit |-> 1, msg |-> "already exists"]
        \* link.symlink_to(path) on a dangling symlink: FileExistsError
        ELSE IF name \in DOMAIN store
        THEN [store |-> store, exit |-> 1, msg |-> "FileExistsError"]
        ELSE [store |-> SetKey(store, name, StoreLink(path)),
              exit |-> 0, msg |-> "Registered"]

\* `config add <path>`
ConfigAdd(path) ==
    /\ proc.pc = "idle"
    /\ LET res == config_add(configs, path)
       IN  /\ configs' = res.store
           /\ last' = Result("config add", <<>>, res.exit,
                             [path |-> path, msg |-> res.msg])
    /\ UNCHANGED <<containers, runs, sources, parent, images, creds, now, proc>>

\* `config remove <name>`
ConfigRemove(name) ==
    /\ proc.pc = "idle"
    /\ IF ~LinkExists(configs, name)
       THEN /\ configs' = configs
            /\ last' = Result("config remove", <<>>, 1, [name |-> name, msg |-> "Config not found"])
       ELSE /\ configs' = DropKey(configs, name)
            /\ last' = Result("config remove", <<>>, 0, [name |-> name, msg |-> "Removed"])
    /\ UNCHANGED <<containers, runs, sources, parent, images, creds, now, proc>>

\* What an entry may be at the start: "file", or the path a link points to.
EntryOf(e) == IF e = "file" THEN StoreFile ELSE StoreLink(e)

\* Each name has no entry, a regular file, a link to a file or a dangling link.
InitStore ==
    /\ containers = EmptyFn
    /\ runs = EmptyFn
    /\ sources = InitSources
    /\ parent = (RootCommit :> RootCommit)
    /\ images = EmptyFn
    /\ creds = "valid"
    /\ now = 0
    /\ proc = Idle
    /\ last = NoResult
    /\ \E pick \in [StoreNames -> {"absent", "file", "p1", "p4", "gone"}] :
          configs = [n \in {m \in StoreNames : pick[m] # "absent"} |-> EntryOf(pick[n])]

NextStore ==
    \/ \E path \in DOMAIN ExternalFiles : ConfigAdd(path)
    \/ \E name \in StoreNames : ConfigRemove(name)

SpecStore == InitStore /\ [][NextStore]_vars

\* Sessions of a config with a cloned repo and of one with none, interrupted
\* starts, containers stopping, clones cleaned up, and `session status --all`.
NextStatus ==
    \/ StartCommand({CfgA, CfgD}, {<<"t">>}, {NoBranch}, {FALSE})
    \/ StartAuth
    \/ StartBuild
    \/ StartClones
    \/ StartRun
    \/ StartLog
    \/ Interrupt
    \/ \E n \in DOMAIN containers : ContainerExit(n)
    \/ \E r \in RunIds : SessionStop(r)
    \/ \E r \in RunIds : CleanupClones(r)
    \/ SessionStatus

SpecStatus == Init /\ [][NextStatus]_vars

\* The same sessions, with gc in both modes instead of the listing.
NextAgree ==
    \/ StartCommand({CfgA, CfgD}, {<<"t">>}, {NoBranch}, {FALSE})
    \/ StartAuth
    \/ StartBuild
    \/ StartClones
    \/ StartRun
    \/ StartLog
    \/ Interrupt
    \/ \E n \in DOMAIN containers : ContainerExit(n)
    \/ \E r \in RunIds : CleanupClones(r)
    \/ \E force \in BOOLEAN : Gc(force)

SpecAgree == Init /\ [][NextAgree]_vars

\* Sessions of two configs and two tags, with the commands that append to the
\* event log after `start`, and gc removing exited containers.
NextLog ==
    \/ StartCommand({CfgA, CfgAB}, Tags, {NoBranch}, {FALSE})
    \/ StartAuth
    \/ StartBuild
    \/ StartClones
    \/ StartRun
    \/ StartLog
    \/ \E r \in RunIds : SessionStop(r)
    \/ \E r \in RunIds : SessionAttach(r, FALSE)
    \/ \E r \in RunIds : CodeFetch(r)
    \/ \E r \in RunIds : CodeSync(r)
    \/ \E r \in RunIds, cp_ok \in BOOLEAN : CodeRefresh(r, cp_ok)
    \/ Gc(TRUE)

SpecLog == Init /\ [][NextLog]_vars

(***************************************************************************)
(* clean_run from every combination of container present or absent, run    *)
(* directory present or absent, event log present or absent, for two run   *)
(* IDs of one config.                                                      *)
(***************************************************************************)
CleanRunId(tag) == generate_run_id(CfgA.name, tag, 0)

CleanBranch(tag) == generate_branch_name(CfgA.name, tag, 0)

CleanTag(r) == CHOOSE tag \in Tags : CleanRunId(tag) = r

CleanImages == build_image(EmptyFn, EmptyFn, CfgA)

\* The run directory as create_clones leaves it, with or without the log
\* that the `start` line creates.
RunDirOf(tag, kind) ==
    LET made == create_clones(InitSources, EmptyFn, CfgA, CleanBranch(tag),
                              CleanRunId(tag)).runs
    IN  IF kind = "nolog" THEN made[CleanRunId(tag)]
        ELSE log_event(made, CleanRunId(tag), 0, "start",
                       <<CfgA.name, CleanBranch(tag)>>)[CleanRunId(tag)]

\* The container as run_container leaves it, running or exited.
ContainerOf(tag, status) ==
    LET c == run_container(EmptyFn, CleanImages, CfgA, CleanBranch(tag),
                           CleanRunId(tag)).containers[ContainerName(CleanRunId(tag))]
    IN  IF status = "running" THEN c ELSE Stopped(c)

\* One initial state per combination, for the sessions of the given tags.
InitOver(tags) ==
    /\ \E dk \in [tags -> {"absent", "nolog", "log"}] :
          runs = [r \in {CleanRunId(tag) : tag \in {t \in tags : dk[t] # "absent"}} |->
                     RunDirOf(CleanTag(r), dk[CleanTag(r)])]
    /\ \E ck \in [tags -> {"absent", "running", "exited"}] :
          containers =
              [n \in {ContainerName(CleanRunId(tag)) :
                         tag \in {t \in tags : ck[t] # "absent"}} |->
                  ContainerOf(CleanTag(RemovePrefix(n)), ck[CleanTag(RemovePrefix(n))])]
    /\ sources = InitSources
    /\ parent = (RootCommit :> RootCommit)
    /\ images = CleanImages
    /\ creds = "valid"
    /\ configs = InitConfigs
    /\ now = 0
    /\ proc = Idle
    /\ last = NoResult

InitClean == InitOver(Tags)

NextClean ==
    \/ \E r \in RunIds : CleanRun(r)
    \/ \E r \in RunIds : SessionClean(r)

SpecClean == InitClean /\ [][NextClean]_vars

(***************************************************************************)
(* `session stop` and `session clean` with all their arguments (cli.py):   *)
(* a run ID, or --all / --config for the bulk form.                        *)
(***************************************************************************)
\* No run ID on the command line.
NoArg == <<>>

\* A --config value that no session belongs to.
OtherConfig == <<"zz">>

\* A check that refuses only the invocation without any argument.
UsageErrorNeither(run_id, flag_all, config_name) ==
    run_id = NoArg /\ ~flag_all /\ config_name = NoConfig

\* Both a run ID and --all/--config, or none of them: ClickException.
UsageError(run_id, flag_all, config_name) ==
    IF run_id # NoArg
    THEN flag_all \/ config_name # NoConfig
    ELSE ~flag_all /\ config_name = NoConfig

\* Every session, whatever --config says.
ForAnyConfig(sessions, config_name) == DOMAIN sessions

\* [s for s in sessions if s["config"] == config_name], when --config is given
ForConfig(sessions, config_name) ==
    {r \in DOMAIN sessions : config_name = NoConfig \/ sessions[r].config = config_name}

\* for t in targets: stop_container(t["run_id"]); log_event(t["run_id"], "stop")
RECURSIVE StopEach(_, _, _, _)
StopEach(cs, rs, targets, t) ==
    IF targets = {} THEN [containers |-> cs, runs |-> rs]
    ELSE LET r == CHOOSE x \in targets : TRUE
         IN  StopEach(stop_container(cs, r).containers,
                      log_event(rs, r, t, "stop", <<>>), targets \ {r}, t)

\* for s in sessions: clean_run(s["run_id"])
RECURSIVE CleanEach(_, _, _)
CleanEach(cs, rs, targets) ==
    IF targets = {} THEN [containers |-> cs, runs |-> rs]
    ELSE LET r == CHOOSE x \in targets : TRUE
         IN  CleanEach(clean_run_containers(cs, r), clean_run_dirs(rs, r), targets \ {r})

\* The command line as given; proceed: --yes, or the confirmation accepted.
Args(run_id, flag_all, config_name, proceed, force) ==
    [run_id |-> run_id, all |-> flag_all, config |-> config_name,
     proceed |-> proceed, force |-> force]

\* `session stop [<run-id>] [--all] [--config c] [--yes]`; proceed: --yes was
\* given or the operator confirms.
SessionStopArgs(run_id, stop_all, config_name, proceed) ==
    /\ proc.pc = "idle"
    /\ LET args == Args(run_id, stop_all, config_name, proceed, FALSE)
           targets == {r \in ForConfig(get_all_sessions(containers, runs), config_name) :
                          get_all_sessions(containers, runs)[r].container = "running"}
       IN  IF UsageError(run_id, stop_all, config_name)
           THEN /\ last' = Result("session stop", run_id, 1, [args |-> args, msg |-> "usage"])
                /\ UNCHANGED <<containers, runs>>
           ELSE IF run_id # NoArg
           THEN IF ~validate_run_id(containers, runs, run_id)
                THEN /\ last' = Result("session stop", run_id, 1,
                                       [args |-> args, msg |-> "No session found"])
                     /\ UNCHANGED <<containers, runs>>
                ELSE LET res == stop_container(containers, run_id)
                     IN  /\ LogRoom(runs, run_id, 1)
                         /\ containers' = res.containers
                         /\ runs' = IF res.ok THEN log_event(runs, run_id, now, "stop", <<>>)
                                    ELSE runs
                         /\ last' = Result("session stop", run_id, IF res.ok THEN 0 ELSE 1,
                                           [args |-> args,
                                            msg |-> IF res.ok THEN "Stopped"
                                                    ELSE "No running container"])
           ELSE IF targets = {} \/ ~proceed
           THEN /\ last' = Result("session stop", run_id, 0, [args |-> args, msg |-> "none"])
                /\ UNCHANGED <<containers, runs>>
           ELSE /\ \A r \in targets : LogRoom(runs, r, 1)
                /\ containers' = StopEach(containers, runs, targets, now).containers
                /\ runs' = StopEach(containers, runs, targets, now).runs
                /\ last' = Result("session stop", run_id, 0, [args |-> args, msg |-> "Stopped"])
    /\ UNCHANGED <<sources, parent, images, creds, now, proc, configs>>

\* `session clean [<run-id>] [--all] [--config c] [--yes] [--force]`
SessionCleanArgs(run_id, clean_all, config_name, proceed, force) ==
    /\ proc.pc = "idle"
    /\ LET args == Args(run_id, clean_all, config_name, proceed, force)
           targets == {r \in ForConfig(get_all_sessions(containers, runs), config_name) :
                          force \/ get_all_sessions(containers, runs)[r].container # "running"}
       IN  IF UsageError(run_id, clean_all, config_name)
           THEN /\ last' = Result("session clean", run_id, 1, [args |-> args, msg |-> "usage"])
                /\ UNCHANGED <<containers, runs>>
           ELSE IF run_id # NoArg
           THEN IF ~validate_run_id(containers, runs, run_id)
                THEN /\ last' = Result("session clean", run_id, 1,
                                       [args |-> args, msg |-> "No session found"])
                     /\ UNCHANGED <<containers, runs>>
                ELSE /\ containers' = clean_run_containers(containers, run_id)
                     /\ runs' = clean_run_dirs(runs, run_id)
                     /\ last' = Result("session clean", run_id, 0,
                                       [args |-> args, msg |-> "Cleaned"])
           ELSE IF targets = {} \/ ~proceed
           THEN /\ last' = Result("session clean", run_id, 0, [args |-> args, msg |-> "none"])
                /\ UNCHANGED <<containers, runs>>
           ELSE /\ containers' = CleanEach(containers, runs, targets).containers
                /\ runs' = CleanEach(containers, runs, targets).runs
                /\ last' = Result("session clean", run_id, 0, [args |-> args, msg |-> "Cleaned"])
    /\ UNCHANGED <<sources, parent, images, creds, now, proc, configs>>

\* What may stand for the run ID and for --config on the command line.
RunIdArgs == RunIds \cup {NoArg}

ConfigArgs == {NoConfig, CfgA.name, OtherConfig}

NextBulk ==
    \/ \E r \in RunIdArgs, flag_all \in BOOLEAN, c \in ConfigArgs, proceed \in BOOLEAN :
          SessionStopArgs(r, flag_all, c, proceed)
    \/ \E r \in RunIdArgs, flag_all \in BOOLEAN, c \in ConfigArgs, proceed \in BOOLEAN,
          force \in BOOLEAN :
          SessionCleanArgs(r, flag_all, c, proceed, force)

SpecBulk == InitClean /\ [][NextBulk]_vars

(***************************************************************************)
(* `project status <config>`: get_project_status (container.py), without   *)
(* the cost columns.                                                       *)
(***************************************************************************)
get_project_status(cs, rs, config_name) ==
    LET all_sessions == get_all_sessions(cs, rs)
        sessions == {r \in DOMAIN all_sessions : all_sessions[r].config = config_name}
        Count(state) == Cardinality({r \in sessions : all_sessions[r].container = state})
    IN  [config         |-> config_name,
         total_sessions |-> Cardinality(sessions),
         running        |-> Count("running"),
         stopped        |-> Count("stopped"),
         cleaned        |-> Count("cleaned"),
         sessions       |-> {[run_id    |-> r,
                              container |-> all_sessions[r].container] : r \in sessions}]

\* `project status <config>`
ProjectStatus(config_name) ==
    /\ proc.pc = "idle"
    /\ last' = Result("project status", <<>>, 0,
                      get_project_status(containers, runs, config_name))
    /\ UNCHANGED <<containers, runs, sources, parent, images, creds, now, proc, configs>>

NextProject ==
    \/ \E c \in {CfgA.name, OtherConfig} : ProjectStatus(c)
    \/ \E n \in DOMAIN containers : ContainerExit(n)
    \/ \E r \in RunIds : CleanupClones(r)

SpecProject == InitClean /\ [][NextProject]_vars

\* Every command that takes a run ID, on the same initial states.
NextValidate ==
    \/ \E r \in RunIds : SessionInfo(r)
    \/ \E r \in RunIds, has_log \in BOOLEAN : SessionLogs(r, has_log)
    \/ \E r \in RunIds : SessionStop(r)
    \/ \E r \in RunIds, headless \in BOOLEAN : SessionAttach(r, headless)
    \/ \E r \in RunIds : SessionClean(r)
    \/ \E r \in RunIds : CodeFetch(r)
    \/ \E r \in RunIds : CodeSync(r)
    \/ \E r \in RunIds, cp_ok \in BOOLEAN : CodeRefresh(r, cp_ok)

InitValidate == InitOver({<<"t">>})

SpecValidate == InitValidate /\ [][NextValidate]_vars

\* A container named scad-<run-id> that scad did not create: no managed label.
ForeignContainer(tag) == [ContainerOf(tag, "running") EXCEPT !.managed = FALSE]

\* Every combination of run directory and container for the sessions of two
\* tags, the container being scad's own (running or exited) or a foreign one.
InitGc ==
    /\ \E dk \in [Tags -> {"absent", "nolog", "log"}] :
          runs = [r \in {CleanRunId(tag) : tag \in {t \in Tags : dk[t] # "absent"}} |->
                     RunDirOf(CleanTag(r), dk[CleanTag(r)])]
    /\ \E ck \in [Tags -> {"absent", "running", "exited", "foreign"}] :
          containers =
              [n \in {ContainerName(CleanRunId(tag)) :
                         tag \in {t \in Tags : ck[t] # "absent"}} |->
                  IF ck[CleanTag(RemovePrefix(n))] = "foreign"
                  THEN ForeignContainer(CleanTag(RemovePrefix(n)))
                  ELSE ContainerOf(CleanTag(RemovePrefix(n)), ck[CleanTag(RemovePrefix(n))])]
    /\ sources = InitSources
    /\ parent = (RootCommit :> RootCommit)
    /\ images = CleanImages
    /\ creds = "valid"
    /\ configs = InitConfigs
    /\ now = 0
    /\ proc = Idle
    /\ last = NoResult

\* gc in both modes, between containers exiting and clones being cleaned up.
NextGc ==
    \/ \E force \in BOOLEAN : Gc(force)
    \/ \E n \in DOMAIN containers : ContainerExit(n)
    \/ \E r \in RunIds : CleanupClones(r)

\* One session in every combination of run directory and container, the
\* container's credentials file being current or expired, under every state
\* of the host credentials file.
InitRefresh ==
    /\ \E dk \in {"absent", "nolog", "log"} :
          runs = IF dk = "absent" THEN EmptyFn
                 ELSE (CleanRunId(<<"t">>) :> RunDirOf(<<"t">>, dk))
    /\ \E ck \in {"absent", "running", "exited"}, cf \in {"valid", "expired"} :
          containers = IF ck = "absent" THEN EmptyFn
                       ELSE (ContainerName(CleanRunId(<<"t">>)) :>
                                [ContainerOf(<<"t">>, ck) EXCEPT !.credfile = cf])
    /\ creds \in CredStates
    /\ configs = InitConfigs
    /\ sources = InitSources
    /\ parent = (RootCommit :> RootCommit)
    /\ images = CleanImages
    /\ now = 0
    /\ proc = Idle
    /\ last = NoResult

NextRefresh ==
    \/ \E r \in RunIds, cp_ok \in BOOLEAN : CodeRefresh(r, cp_ok)
    \/ \E c \in CredStates : CredsChange(c)
    \/ \E n \in DOMAIN containers : ContainerExit(n)

SpecRefresh == InitRefresh /\ [][NextRefresh]_vars

(***************************************************************************)
(* The volume map of run_container (container.py, claude_config.py): a     *)
(* dict keyed by host path, filled rule after rule.                        *)
(***************************************************************************)
\* create_clones: the clone of a worktree repo, else the repo's own path.
HostPathOf(repo) ==
    IF repo.worktree THEN <<"clone", repo.key>> ELSE <<"host", repo.path>>

Volume(bind, mode) == [bind |-> bind, mode |-> mode]

\* for key, repo in config.repos.items(): volumes[host_path] = {...}
RECURSIVE RepoVolumes(_, _, _)
RepoVolumes(vol, repos, i) ==
    IF i > Len(repos) THEN vol
    ELSE RepoVolumes(SetKey(vol, HostPathOf(repos[i]),
                            Volume(<<"workspace", repos[i].key>>,
                                   IF repos[i].worktree THEN "rw" ELSE "ro")),
                     repos, i + 1)

\* for mount in config.mounts: volumes[host_path] = {..., "mode": "rw"}
RECURSIVE MountVolumes(_, _, _)
MountVolumes(vol, mounts, i) ==
    IF i > Len(mounts) THEN vol
    ELSE MountVolumes(SetKey(vol, <<"host", mounts[i].host>>,
                             Volume(<<mounts[i].container>>, "rw")),
                      mounts, i + 1)

\* get_volume_mounts: claude dir, claude.json, credentials, CLAUDE.md, localtime.
get_volume_mounts ==
    (<<"run", "claude">> :> Volume(<<"home", "claude">>, "rw")) @@
    (<<"run", "claude.json">> :> Volume(<<"home", "claude.json">>, "rw")) @@
    (<<"home", "credentials">> :> Volume(<<"mnt", "credentials">>, "ro")) @@
    (<<"home", "CLAUDE.md">> :> Volume(<<"home", "CLAUDE.md">>, "ro")) @@
    (<<"etc", "localtime">> :> Volume(<<"etc", "localtime">>, "ro"))

\* dict.update: the entries of `more` replace those of `vol` with the same key.
Update(vol, more) == more @@ vol

\* run_container: the volume map, in the order the rules are applied.
build_volumes(repos, mounts, gitconfig) ==
    LET v1 == RepoVolumes(EmptyFn, repos, 1)
        v2 == MountVolumes(v1, mounts, 1)
        v3 == SetKey(v2, <<"home", "logs">>, Volume(<<"scad-logs">>, "rw"))
        v4 == IF gitconfig
              THEN SetKey(v3, <<"home", "gitconfig">>, Volume(<<"mnt", "gitconfig">>, "ro"))
              ELSE v3
    IN  Update(v4, get_volume_mounts)

\* The repos of a config: one or two, the first the workdir, each a clone or
\* a direct mount of one of two host directories.
VolumeRepos ==
    {<<RepoConfig("code", p, TRUE, wt)>> : p \in {"s1", "s3"}, wt \in BOOLEAN}
        \cup {<<RepoConfig("code", p, TRUE, wt), RepoConfig("data", q, FALSE, wu)>> :
                 p \in {"s1", "s3"}, q \in {"s1", "s3"}, wt \in BOOLEAN, wu \in BOOLEAN}

\* The supplementary mounts of a config: none, or one host directory.
VolumeMounts ==
    {<<>>} \cup {<<[host |-> h, container |-> "data"]>> : h \in {"s3", "d1"}}

\* The volume map run_container passes to the runtime for one config.
BuildVolumes(repos, mounts, gitconfig) ==
    /\ proc.pc = "idle"
    /\ last' = Result("volumes", <<>>, 0,
                      [repos |-> repos, mounts |-> mounts,
                       volumes |-> build_volumes(repos, mounts, gitconfig)])
    /\ UNCHANGED <<containers, runs, sources, parent, images, creds, now, proc, configs>>

NextVolumes ==
    \E repos \in VolumeRepos, mounts \in VolumeMounts, gitconfig \in BOOLEAN :
        BuildVolumes(repos, mounts, gitconfig)

SpecVolumes == Init /\ [][NextVolumes]_vars

(***************************************************************************)
(* check_claude_auth on the content of ~/.claude/.credentials.json          *)
(* (container.py).  A JSON value is a tagged record; times are in           *)
(* milliseconds, and the hours are kept as milliseconds remaining, which   *)
(* has the sign and the zero of remaining / 3600.                          *)
(***************************************************************************)
HourMs == 3600000

JsonLeaves ==
    [t : {"num"}, v : {h * HourMs : h \in 0..(MaxHours + 1)}]
        \cup [t : {"bool"}, b : BOOLEAN]
        \cup [t : {"str", "null", "arr"}]

\* {} or {"expiresAt": leaf}
OauthObjects ==
    {[t |-> "obj", f |-> EmptyFn]}
        \cup {[t |-> "obj", f |-> ("expiresAt" :> x)] : x \in JsonLeaves}

\* {} or {"claudeAiOauth": leaf or object}
TopObjects ==
    {[t |-> "obj", f |-> EmptyFn]}
        \cup {[t |-> "obj", f |-> ("claudeAiOauth" :> x)] : x \in JsonLeaves \cup OauthObjects}

CredFiles ==
    {[kind |-> "missing"], [kind |-> "notjson"]}
        \cup {[kind |-> "json", value |-> x] : x \in JsonLeaves \cup TopObjects}

ClockTimes == {h * HourMs : h \in 0..MaxHours}

AuthResult(raised, valid, hours) == [raised |-> raised, valid |-> valid, hours |-> hours]

\* value[key]: "KeyError", "TypeError", or the member.
Subscript(value, key) ==
    IF value.t = "obj"
    THEN IF key \in DOMAIN value.f THEN [err |-> "none", value |-> value.f[key]]
         ELSE [err |-> "KeyError", value |-> value]
    \* a str, list, number, bool or None subscripted with a str
    ELSE [err |-> "TypeError", value |-> value]

\* x / 1000 is defined for int, float and bool.
IsNumber(x) == x.t \in {"num", "bool"}

Number(x) == IF x.t = "bool" THEN (IF x.b THEN 1 ELSE 0) ELSE x.v

Max(a, b) == IF a >= b THEN a ELSE b

\* check_claude_auth: (valid, hours), or the exception that leaves it.
\* JSONDecodeError and KeyError are caught; TypeError is not.
check_claude_auth_file(file, clock) ==
    IF file.kind = "missing" THEN AuthResult("none", FALSE, 0)
    ELSE IF file.kind = "notjson" THEN AuthResult("none", FALSE, 0)
    ELSE LET oauth == Subscript(file.value, "claudeAiOauth")
             exp   == IF oauth.err = "none" THEN Subscript(oauth.value, "expiresAt")
                      ELSE oauth
         IN  IF exp.err = "KeyError" THEN AuthResult("none", FALSE, 0)
             ELSE IF exp.err = "TypeError" THEN AuthResult("TypeError", FALSE, 0)
             ELSE IF ~IsNumber(exp.value) THEN AuthResult("TypeError", FALSE, 0)
             ELSE AuthResult("none", Number(exp.value) - clock > 0,
                             Max(Number(exp.value) - clock, 0))

\* One call of check_claude_auth on a credentials file at a clock time.
CheckAuth(file, clock) ==
    /\ proc.pc = "idle"
    /\ LET res == check_claude_auth_file(file, clock)
       IN  last' = Result("auth", <<>>, IF res.raised = "none" THEN 0 ELSE 1,
                          [file |-> file, clock |-> clock, res |-> res])
    /\ UNCHANGED <<containers, runs, sources, parent, images, creds, now, proc, configs>>

NextAuth == \E file \in CredFiles, clock \in ClockTimes : CheckAuth(file, clock)

SpecAuth == Init /\ [][NextAuth]_vars

SpecGc == InitGc /\ [][NextGc]_vars

(***************************************************************************)
(* gc(force=True) when removals fail.  failC, failD and failI are the      *)
(* containers, run directories and images whose removal fails; `before` is *)
(* the part of the dead directories that iterdir() yields before the first *)
(* one whose rmtree fails.                                                 *)
(***************************************************************************)
\* container.stop succeeds; container.remove raises and is swallowed.
RemoveContainers(cs, orphans, failC) ==
    [n \in (DOMAIN cs) \ (orphans \ failC) |->
        IF n \in orphans THEN Stopped(cs[n]) ELSE cs[n]]

\* gc(force=True): [raised, findings, containers, runs, images].
gc_failing(cs, rs, imgs, failC, failD, failI, before) ==
    LET orphans == OrphanedContainers(cs, rs)
        cs1     == RemoveContainers(cs, orphans, failC)
        dead    == DeadRunDirs(cs1, rs)
        raised  == dead \cap failD # {}
        unused  == UnusedImages(imgs, ActiveImageIds(cs))
    IN  IF raised
        \* shutil.rmtree is not guarded: the exception leaves gc.
        THEN [raised     |-> TRUE,
              findings   |-> [orphaned_containers |-> orphans,
                              dead_run_dirs       |-> (dead \cap before) \ failD,
                              unused_images       |-> {}],
              containers |-> cs1,
              runs       |-> DropKeys(rs, (dead \cap before) \ failD),
              images     |-> imgs]
        ELSE [raised     |-> FALSE,
              findings   |-> [orphaned_containers |-> orphans,
                              dead_run_dirs       |-> dead,
                              unused_images       |-> unused],
              containers |-> cs1,
              runs       |-> DropKeys(rs, dead),
              images     |-> DropKeys(imgs, unused \ failI)]

\* `scad gc --force` with failing removals: exit 1 is the uncaught exception.
GcFailing(failC, failD, failI, before) ==
    /\ proc.pc = "idle"
    /\ LET res == gc_failing(containers, runs, images, failC, failD, failI, before)
       IN  /\ containers' = res.containers
           /\ runs' = res.runs
           /\ images' = res.images
           /\ last' = Result("gc", <<>>, IF res.raised THEN 1 ELSE 0,
                             [force |-> TRUE, findings |-> res.findings,
                              failed |-> [containers |-> failC, dirs |-> failD,
                                          images |-> failI]])
    /\ UNCHANGED <<sources, parent, creds, now, proc, configs>>

NextGcFailing ==
    \/ \E failC \in SUBSET DOMAIN containers, failD \in SUBSET DOMAIN runs,
          failI \in SUBSET DOMAIN images, before \in SUBSET DOMAIN runs :
            GcFailing(failC, failD, failI, before)
    \/ \E n \in DOMAIN containers : ContainerExit(n)
    \/ \E r \in RunIds : CleanupClones(r)

SpecGcFailing == InitGc /\ [][NextGcFailing]_vars

(***************************************************************************)
(* C1. In every execution of `session start` the steps run in the order    *)
(* credentials check, image build (when needed), clone creation, container *)
(* launch, `start` event append, and a failed step ends the invocation:    *)
(* an invocation is past a step only if that step succeeded, each effect   *)
(* (image, clones, container, `start` line) is made by its own step only,  *)
(* and the step that fails leaves the invocation idle.                     *)
(***************************************************************************)
PcOrder == <<"idle", "resolved", "authed", "built", "cloned", "launched">>

PcIndex(pc) == CHOOSE i \in 1..Len(PcOrder) : PcOrder[i] = pc

Past(pc) == PcIndex(proc.pc) >= PcIndex(pc)

\* The clones create_clones leaves for the invocation in flight.
ClonesMade ==
    /\ proc.run_id \in DOMAIN runs
    /\ runs[proc.run_id].claude /\ runs[proc.run_id].claudeJson
    /\ \A i \in WorktreeRepos(proc.config) :
          /\ proc.config.repos[i].key \in DOMAIN runs[proc.run_id].clones
          /\ runs[proc.run_id].clones[proc.config.repos[i].key].head = proc.branch

ContainerLaunched ==
    /\ ContainerName(proc.run_id) \in DOMAIN containers
    /\ containers[ContainerName(proc.run_id)].status = "running"
    /\ containers[ContainerName(proc.run_id)].branch = proc.branch

StepsSucceeded ==
    /\ Past("authed") => check_claude_auth(creds)
    /\ Past("built") => image_exists(images, proc.config)
    /\ Past("cloned") => ClonesMade
    /\ Past("launched") => ContainerLaunched

EventsOf(rs, r) == IF r \in DOMAIN rs THEN rs[r].events ELSE <<>>

ClonesOf(rs, r) == IF r \in DOMAIN rs THEN rs[r].clones ELSE EmptyFn

AllRuns == (DOMAIN runs) \cup (DOMAIN runs')

StepOrder ==
    /\ proc'.pc # proc.pc =>
          \/ proc'.pc = "idle"
          \/ PcIndex(proc'.pc) = PcIndex(proc.pc) + 1
    /\ images' # images => proc.pc = "authed"
    /\ (\E r \in AllRuns : ClonesOf(runs', r) # ClonesOf(runs, r)) => proc.pc = "built"
    /\ containers' # containers => proc.pc = "cloned" /\ proc'.pc = "launched"
    /\ (\E r \in AllRuns : EventsOf(runs', r) # EventsOf(runs, r)) => proc.pc = "launched"
    /\ (last' # last /\ last'.cmd = "start" /\ last'.exit # 0) =>
          /\ proc'.pc = "idle"
          /\ containers' = containers
          /\ \A r \in AllRuns : EventsOf(runs', r) = EventsOf(runs, r)
          /\ last'.out # "clones" => runs' = runs

C1_StartOrder == [](StepsSucceeded) /\ [][StepOrder]_vars

\* Witness: a start that failed at the container launch, after its clones
\* were made, and appended no `start` line.
C1_Witness ==
    /\ last.cmd = "start" /\ last.out = "run" /\ last.exit = 3
    /\ last.run_id \in DOMAIN runs
    /\ DOMAIN runs[last.run_id].clones # {}

(***************************************************************************)
(* C2. In every reachable state, also between two steps of `session        *)
(* start`, no run has a running container while its run directory has no   *)
(* events.log.                                                             *)
(***************************************************************************)
C2_NoRunningWithoutLog ==
    \A n \in DOMAIN containers :
        containers[n].status = "running" => HasEventsLog(runs, RemovePrefix(n))

(***************************************************************************)
(* C3. Double-start is impossible: a start whose generated run ID is that  *)
(* of an existing session (a container scad-<runId> exists) creates no     *)
(* second container, appends no `start` line and leaves the clones of the  *)
(* existing session as they are.                                           *)
(***************************************************************************)
DoubleStart ==
    /\ proc.pc \in {"authed", "built", "cloned"}
    /\ ContainerName(proc.run_id) \in DOMAIN containers

C3_DoubleStartHarmless ==
    [][DoubleStart =>
          /\ containers' = containers
          /\ EventsOf(runs', proc.run_id) = EventsOf(runs, proc.run_id)
          /\ ClonesOf(runs', proc.run_id) = ClonesOf(runs, proc.run_id)]_vars

(***************************************************************************)
(* C4. `clean` is the only operation that deletes agent state: over start, *)
(* stop, attach, fetch, sync, refresh, cleanup_clones and gc (with or      *)
(* without force), the claude/ directory and the claude.json of a run are  *)
(* removed only by a clean of that run.                                    *)
(***************************************************************************)
HasClaudeDir(rs, r) == r \in DOMAIN rs /\ rs[r].claude

HasClaudeJson(rs, r) == r \in DOMAIN rs /\ rs[r].claudeJson

C4_OnlyCleanDeletes ==
    [][\A r \in DOMAIN runs :
          (\/ HasClaudeDir(runs, r) /\ ~HasClaudeDir(runs', r)
           \/ HasClaudeJson(runs, r) /\ ~HasClaudeJson(runs', r))
          => last'.cmd = "clean" /\ last'.run_id = r]_vars

(***************************************************************************)
(* C5. gc with force is idempotent: right after a gc(force=true), in any   *)
(* reachable state, a second gc(force=true) finds nothing: no orphaned     *)
(* container, no dead run directory, no unused image.                      *)
(***************************************************************************)
NoFindings(f) ==
    /\ f.orphaned_containers = {}
    /\ f.dead_run_dirs = {}
    /\ f.unused_images = {}

AfterForcedGc == last.cmd = "gc" /\ last.out.force

C5_GcForceIdempotent ==
    AfterForcedGc => NoFindings(gc(containers, runs, images, TRUE).findings)

(***************************************************************************)
(* C10. `session clean <run-id>` on a run ID that has neither a container  *)
(* nor a run directory exits 0.                                            *)
(***************************************************************************)
C10_CleanUnknownExitsZero ==
    [][(/\ last'.cmd = "clean"
        /\ ~_container_exists(containers, last'.run_id)
        /\ last'.run_id \notin DOMAIN runs)
       => last'.exit = 0]_vars

(***************************************************************************)
(* C6. For a repo with worktree=true: when a clone is on the session       *)
(* branch b, as create_clones and the agent's commits leave it, and        *)
(* fetch_to_host succeeds, then b exists in the source repo at the commit  *)
(* of the clone's b.                                                       *)
(***************************************************************************)
SessionBranch(r) == _parse_events_log(runs, r).branch

FetchReturned == last'.cmd = "fetch" /\ last'.exit = 0

C6_FetchPublishesBranch ==
    [][FetchReturned =>
          LET r      == last'.run_id
              config == _config_for_run(runs, r).config
          IN  \A i \in WorktreeRepos(config) :
                 LET key  == config.repos[i].key
                     path == config.repos[i].path
                     b    == SessionBranch(r)
                 IN  (/\ key \in DOMAIN runs[r].clones
                      /\ runs[r].clones[key].head = b)
                     => /\ b \in DOMAIN sources'[path].branches
                        /\ sources'[path].branches[b] = runs'[r].clones[key].branches[b]]_vars

\* Witness: a fetch returned both repos and a commit of the agent has
\* reached a source repo on the session branch.
C6_Witness ==
    /\ last.cmd = "fetch" /\ last.exit = 0
    /\ Len(last.out.results) = 2
    /\ \E p \in SourcePaths :
          /\ SessionBranch(last.run_id) \in DOMAIN sources[p].branches
          /\ sources[p].branches[SessionBranch(last.run_id)] # RootCommit

(***************************************************************************)
(* C7. fetch_to_host reports partial success: when the fetch of a later    *)
(* repo fails, the repos fetched before it are still in the reported       *)
(* results and one `fetch` line per such repo is appended to the log.      *)
(***************************************************************************)
NewEvents(r) == SubSeq(EventsOf(runs', r), Len(EventsOf(runs, r)) + 1, Len(EventsOf(runs', r)))

C7_PartialFetchReported ==
    [][last'.cmd = "fetch" =>
          \A p \in SourcePaths :
             sources'[p] # sources[p] =>
                /\ \E i \in 1..Len(last'.out.results) : last'.out.results[i].source = p
                /\ \E i \in 1..Len(NewEvents(last'.run_id)) :
                      /\ NewEvents(last'.run_id)[i].verb = "fetch"
                      /\ NewEvents(last'.run_id)[i].details[3] = <<p>>]_vars

(***************************************************************************)
(* C8. fetch_to_host always undoes the detach: whenever it returns or      *)
(* fails, every clone that was on a branch has its HEAD on that branch.    *)
(***************************************************************************)
C8_DetachUndone ==
    [][last'.cmd = "fetch" =>
          \A r \in DOMAIN runs : \A k \in DOMAIN runs[r].clones :
             runs[r].clones[k].head # Detached
             => runs'[r].clones[k].head = runs[r].clones[k].head]_vars

(***************************************************************************)
(* C9. clean_run(r) is idempotent and tolerant: whatever of the container, *)
(* the run directory and the event log existed, it returns, afterwards     *)
(* neither scad-<r> nor the run directory of r exists, and a second        *)
(* clean_run(r) changes nothing.                                           *)
(***************************************************************************)
AfterCleanRun == last.cmd = "clean_run"

RunIdCommands == {"info", "logs", "stop", "attach", "clean", "fetch", "sync", "refresh"}

NoSession(run_id) ==
    /\ ContainerName(run_id) \notin DOMAIN containers
    /\ run_id \notin DOMAIN runs

ClonesExist(r) == DOMAIN runs[r].clones # {}

ContainerRunning(r) ==
    _container_exists(containers, r) /\ containers[ContainerName(r)].status = "running"

C12_SessionStates ==
    \A r \in DOMAIN runs :
        /\ r \in DOMAIN get_all_sessions(containers, runs)
        /\ LET state == get_all_sessions(containers, runs)[r].container
           IN  /\ state = "running" <=> ContainerRunning(r)
               /\ state = "stopped" <=>
                     (_container_exists(containers, r) /\ ~ContainerRunning(r))
               /\ state = "removed" <=>
                     (~_container_exists(containers, r) /\ ClonesExist(r))
               /\ state = "cleaned" <=>
                     (~_container_exists(containers, r) /\ ~ClonesExist(r))

(***************************************************************************)
(* C13. resolve_branch(C, None, tag) returns a name that exists in no      *)
(* source repo with worktree=true: the generated base name if it is free,  *)
(* otherwise base-k for the least k >= 2 such that base-k is free in all   *)
(* of those repos.                                                         *)
(***************************************************************************)
\* Branch b exists in the source of some repo of the config that is cloned.
InClonedSource(config, b) ==
    \E i \in 1..Len(config.repos) :
        config.repos[i].worktree /\ b \in DOMAIN sources[config.repos[i].path].branches

AutoResolved == last.cmd = "resolve" /\ last.out.asked = NoBranch

C13_AutoBranchIsFree ==
    AutoResolved =>
        /\ last.out.res.ok
        /\ ~InClonedSource(last.out.config, last.out.res.branch)
        /\ \/ last.out.res.branch = BranchBase
           \/ \E k \in 2..(MaxSuffix + 1) :
                 /\ last.out.res.branch = BranchBase \o <<SuffixStr(k)>>
                 /\ InClonedSource(last.out.config, BranchBase)
                 /\ \A j \in 2..(k - 1) :
                       InClonedSource(last.out.config, BranchBase \o <<SuffixStr(j)>>)

\* Witness: the base name and every suffixed name of the pool are taken, in
\* different repos, and the next suffix was returned.
C13_Witness ==
    /\ AutoResolved
    /\ last.out.config = CfgM
    /\ last.out.res.branch = BranchBase \o <<SuffixStr(MaxSuffix + 1)>>
    /\ BranchBase \notin DOMAIN sources["s1"].branches

(***************************************************************************)
(* C14. resolve_branch with an operator-supplied name returns that name    *)
(* iff no source repo with worktree=true has the branch; otherwise it      *)
(* fails naming the first colliding repo in declaration order; repos with  *)
(* worktree=false are never consulted.                                     *)
(***************************************************************************)
UserResolved == last.cmd = "resolve" /\ last.out.asked # NoBranch

\* The repos of the config, in declaration order, that are cloned and whose
\* source has branch b.
Colliding(config, b) ==
    {i \in 1..Len(config.repos) :
        config.repos[i].worktree /\ b \in DOMAIN sources[config.repos[i].path].branches}

C14_UserBranchChecked ==
    UserResolved =>
        LET config == last.out.config
            asked  == last.out.asked
        IN  /\ last.out.res.ok <=> Colliding(config, asked) = {}
            /\ last.out.res.ok => last.out.res.branch = asked /\ last.exit = 0
            /\ ~last.out.res.ok =>
                  /\ last.exit = 2
                  /\ \E i \in Colliding(config, asked) :
                        /\ last.out.res.repo = config.repos[i].key
                        /\ \A j \in Colliding(config, asked) : i <= j

\* Witness: the branch exists in both sources of CfgM and in the source of
\* the mounted repo of CfgMD, which was accepted.
C14_Witness ==
    /\ UserResolved
    /\ last.out.config = CfgMD
    /\ last.out.res.ok
    /\ Feat \in DOMAIN sources["s2"].branches

(***************************************************************************)
(* C15. For every run started by `session start`, config_name_for_run read *)
(* back from the event log is the config name passed to start: it is that  *)
(* name when start returns, and no later stop, attach, fetch, sync or      *)
(* refresh on a run with a `start` line changes the name read back.        *)
(***************************************************************************)
LaterEvents == {"stop", "attach", "fetch", "sync", "refresh"}

C15_ConfigReadBack ==
    [][/\ (last'.cmd = "start" /\ last'.exit = 0)
              => config_name_for_run(runs', last'.run_id) = proc.config.name
       /\ \A r \in DOMAIN runs :
             (last'.cmd \in LaterEvents /\ StartEvents(runs[r].events) # {})
                 => config_name_for_run(runs', r) = config_name_for_run(runs, r)]_vars

(***************************************************************************)
(* C16. Every successfully loaded config has exactly one repo with         *)
(* workdir=true, and loading a config whose file marks zero or two or more *)
(* repos as workdir fails.                                                 *)
(***************************************************************************)
Loaded == last.cmd = "load"

MarkedWorkdir(raw) == {i \in 1..Len(raw) : raw[i].workdir = "true"}

StopStep == last'.cmd = "stop"

HadContainer == ContainerName(last'.run_id) \in DOMAIN containers

DirBefore(r) == IF r \in DOMAIN runs THEN runs[r] ELSE EmptyDir

OneStopLineAppended(r) ==
    /\ r \in DOMAIN runs'
    /\ Len(runs'[r].events) = Len(DirBefore(r).events) + 1
    /\ runs'[r].events[Len(runs'[r].events)].verb = "stop"
    /\ runs'[r] = [DirBefore(r) EXCEPT
                      !.events = Append(@, runs'[r].events[Len(runs'[r].events)])]
    /\ \A q \in AllRuns \ {r} : q \in DOMAIN runs /\ q \in DOMAIN runs' /\ runs'[q] = runs[q]

C17_StopNeverRemoves ==
    [][StopStep =>
         IF HadContainer
         THEN /\ last'.exit = 0
              /\ DOMAIN containers' = DOMAIN containers
              /\ containers'[ContainerName(last'.run_id)].status # "running"
              /\ \A n \in DOMAIN containers :
                    containers'[n] = [containers[n] EXCEPT !.status = containers'[n].status]
              /\ \A n \in DOMAIN containers \ {ContainerName(last'.run_id)} :
                    containers'[n] = containers[n]
              /\ OneStopLineAppended(last'.run_id)
         ELSE /\ last'.exit # 0
              /\ runs' = runs
              /\ containers' = containers]_vars

\* A running container was stopped and its run's log ends with `stop`.
C17_Witness ==
    /\ last.cmd = "stop"
    /\ last.exit = 0
    /\ ContainerName(last.run_id) \in DOMAIN containers
    /\ containers[ContainerName(last.run_id)].status = "exited"
    /\ last.run_id \in DOMAIN runs
    /\ Len(runs[last.run_id].events) >= 2
    /\ runs[last.run_id].events[Len(runs[last.run_id].events)].verb = "stop"
    /\ runs[last.run_id].clones # EmptyFn

(***************************************************************************)
(* C18. gc(force=false) modifies nothing: the containers, the run          *)
(* directories with their contents and the images are the same before and  *)
(* after the call.                                                         *)
(***************************************************************************)
GcStep == last'.cmd = "gc"

C18_DryRunChangesNothing ==
    [][(GcStep /\ ~last'.out.force) =>
          /\ containers' = containers
          /\ runs' = runs
          /\ images' = images
          /\ sources' = sources]_vars

\* A dry run that reported an orphaned container and a dead run directory,
\* both of them still there.
C18_Witness ==
    /\ last.cmd = "gc"
    /\ ~last.out.force
    /\ last.out.findings.orphaned_containers # {}
    /\ last.out.findings.dead_run_dirs # {}
    /\ last.out.findings.orphaned_containers \subseteq DOMAIN containers
    /\ last.out.findings.dead_run_dirs \subseteq DOMAIN runs

(***************************************************************************)
(* C19. gc reports a container as orphaned iff it carries the managed      *)
(* label and its run directory is missing or its state is `exited`; a      *)
(* managed running container whose run directory exists is never reported  *)
(* and is left as it was, also by gc(force=true).                          *)
(***************************************************************************)
RunDirMissing(n) == RemovePrefix(n) \notin DOMAIN runs

C19_OrphanedContainers ==
    [][GcStep =>
          /\ last'.out.findings.orphaned_containers \subseteq DOMAIN containers
          /\ \A n \in DOMAIN containers :
                n \in last'.out.findings.orphaned_containers
                    <=> /\ containers[n].managed
                        /\ IF RunDirMissing(n) THEN TRUE
                           ELSE containers[n].status = "exited"
          /\ \A n \in DOMAIN containers :
                (/\ containers[n].managed
                 /\ containers[n].status = "running"
                 /\ ~RunDirMissing(n))
                => /\ n \notin last'.out.findings.orphaned_containers
                   /\ n \in DOMAIN containers'
                   /\ containers'[n] = containers[n]]_vars

\* A forced gc has removed an orphan and left a foreign container of the
\* same naming, without a run directory, in place.
C19_Witness ==
    /\ last.cmd = "gc"
    /\ last.out.force
    /\ last.out.findings.orphaned_containers # {}
    /\ \E n \in DOMAIN containers :
          ~containers[n].managed /\ RemovePrefix(n) \notin DOMAIN runs

(***************************************************************************)
(* C20. gc reports a run directory as dead iff no container named          *)
(* scad-<run-id> exists and its worktrees directory has no entries; so     *)
(* gc(force=true) never deletes a run directory that holds a clone or that *)
(* has a container.                                                        *)
(***************************************************************************)
HoldsClone(r) == DOMAIN runs[r].clones # {}

HasContainer(r) == ContainerName(r) \in DOMAIN containers

C20_DeadRunDirs ==
    [][GcStep =>
          /\ \A r \in DOMAIN runs :
                r \in last'.out.findings.dead_run_dirs
                    <=> (~HasContainer(r) /\ ~HoldsClone(r))
          /\ \A r \in DOMAIN runs :
                r \notin DOMAIN runs' => (~HasContainer(r) /\ ~HoldsClone(r))]_vars

(***************************************************************************)
(* C21. In gc(force=true) the failure to remove a single finding (orphan   *)
(* container, dead run directory, unused image) is swallowed: gc returns   *)
(* without raising, and every finding whose removal did not fail is        *)
(* removed.                                                                *)
(***************************************************************************)
C21_GcFailuresSwallowed ==
    [][(GcStep /\ last'.out.force) =>
          /\ last'.exit = 0
          /\ \A r \in DOMAIN runs :
                (~HasContainer(r) /\ ~HoldsClone(r) /\ r \notin last'.out.failed.dirs)
                    => r \notin DOMAIN runs']_vars

(***************************************************************************)
(* C22. `code refresh` copies inside the container and appends a `refresh` *)
(* event only when the host credentials are valid and the container        *)
(* scad-<run-id> exists and is running.  Otherwise it fails, with the      *)
(* expired error when the credentials are not valid (they are checked      *)
(* before the container), else with the not-found or not-running error,    *)
(* and it changes neither the container nor the log.                       *)
(***************************************************************************)
RefreshStep == last'.cmd = "refresh"

Refreshable(r) ==
    /\ creds = "valid"
    /\ ContainerName(r) \in DOMAIN containers
    /\ containers[ContainerName(r)].status = "running"

KnownRun(r) == r \in DOMAIN runs \/ ContainerName(r) \in DOMAIN containers

C30_RefreshCopies ==
    [][(RefreshStep /\ EventsOf(runs', last'.run_id) # EventsOf(runs, last'.run_id)) =>
          /\ ContainerName(last'.run_id) \in DOMAIN containers'
          /\ containers'[ContainerName(last'.run_id)].credfile = creds']_vars

(***************************************************************************)
(* C23. check_claude_auth never throws: for every content of the           *)
(* credentials file it returns a pair, which is (false, 0) when the file   *)
(* is missing or cannot be parsed; when valid is false the hours are 0,    *)
(* and when valid is true the hours are greater than 0.                    *)
(***************************************************************************)
C23_AuthNeverThrows ==
    last.cmd = "auth" =>
        /\ last.out.res.raised = "none"
        /\ last.out.file.kind # "json" =>
              (~last.out.res.valid /\ last.out.res.hours = 0)
        /\ ~last.out.res.valid => last.out.res.hours = 0
        /\ last.out.res.valid => last.out.res.hours > 0

(***************************************************************************)
(* C24. `config add` validates before registering and is idempotent: an    *)
(* invalid file leaves the store unchanged; when the entry for the name is *)
(* a link to the same file the command succeeds and changes nothing; when  *)
(* an entry with that name exists and targets anything else the command    *)
(* fails with the name-taken error and the entry is unchanged.             *)
(***************************************************************************)
AddStep == last'.cmd = "config add"

AddedFile == ExternalFiles[last'.out.path]

FileIsValid == \E i \in 1..Len(AddedFile.repos) : AddedFile.repos[i].workdir = "true"

C24_ConfigAddIdempotent ==
    [][AddStep =>
          /\ ~FileIsValid => (last'.exit # 0 /\ configs' = configs)
          /\ (FileIsValid /\ AddedFile.name \in DOMAIN configs) =>
                IF configs[AddedFile.name] = StoreLink(last'.out.path)
                THEN last'.exit = 0 /\ configs' = configs
                ELSE /\ last'.exit # 0
                     /\ last'.out.msg = "already exists"
                     /\ configs' = configs]_vars

(***************************************************************************)
(* C25. In the volume map passed to the container runtime every repo key k *)
(* of the configuration has a bind at /workspace/k, whose mode is rw iff   *)
(* the repo has worktree=true and ro otherwise: no later rule overwrites   *)
(* or drops the entry of a repo.                                           *)
(***************************************************************************)
C25_RepoBinds ==
    last.cmd = "volumes" =>
        \A i \in 1..Len(last.out.repos) :
            \E h \in DOMAIN last.out.volumes :
                /\ last.out.volumes[h].bind = <<"workspace", last.out.repos[i].key>>
                /\ last.out.volumes[h].mode = "rw" <=> last.out.repos[i].worktree

(***************************************************************************)
(* C26. `session stop` and `session clean` take either a run ID or         *)
(* --all/--config, never both and never neither: an invocation with both,  *)
(* or with none of them, fails and stops or cleans no session.             *)
(***************************************************************************)
StopOrCleanStep == last'.cmd \in {"session stop", "session clean"}

GivenRunId == last'.out.args.run_id # <<>>

GivenBulk == last'.out.args.all \/ last'.out.args.config # <<>>

C26_RunIdXorBulk ==
    [][(StopOrCleanStep /\ (GivenRunId <=> GivenBulk)) =>
          /\ last'.exit # 0
          /\ containers' = containers
          /\ runs' = runs]_vars

\* A stop with a run ID and --all was refused while that run's container
\* was running.
C26_Witness ==
    /\ last.cmd = "session stop"
    /\ last.exit # 0
    /\ last.out.args.run_id # <<>>
    /\ last.out.args.all
    /\ ContainerName(last.out.args.run_id) \in DOMAIN containers
    /\ containers[ContainerName(last.out.args.run_id)].status = "running"

(***************************************************************************)
(* C27. Every CLI command invoked with a run ID for which neither a run    *)
(* directory nor a container exists terminates with exit code 2.           *)
(***************************************************************************)
C27_UnknownRunExitsTwo ==
    [][(last'.cmd \in RunIdCommands /\ NoSession(last'.run_id)) => last'.exit = 2]_vars

(***************************************************************************)
(* C28. The run ID is uniquely derived from config name, tag and minute:   *)
(* within one minute generate_run_id maps distinct (config name, tag)      *)
(* pairs to distinct run IDs, so the run ID of a `session start` in flight *)
(* is that of no other (config, tag) pair, and no container of another     *)
(* configuration carries it.                                               *)
(***************************************************************************)
C28_RunIdUnique ==
    proc.pc # "idle" =>
        /\ \A c \in Configs, tag \in Tags :
              generate_run_id(c.name, tag, now) = proc.run_id
                  => (c.name = proc.config.name /\ tag = proc.tag)
        /\ \A n \in DOMAIN containers :
              containers[n].run_id = proc.run_id
                  => containers[n].config = proc.config.name

(***************************************************************************)
(* C29. The event log is append-only and ordered by arrival: for every     *)
(* operation other than clean and gc(force=true) the lines present before  *)
(* the operation are an unchanged prefix of the log after it, and a        *)
(* command that calls log_event once (a successful start, stop or refresh) *)
(* leaves exactly one more line, at the end.                               *)
(***************************************************************************)
MayDeleteLog ==
    IF last'.cmd = "gc" THEN last'.out.force ELSE last'.cmd \in {"clean", "clean_run"}

LogsOnce == last'.cmd \in {"start", "stop", "refresh"} /\ last'.exit = 0

C29_LogAppendOnly ==
    [][/\ ~MayDeleteLog =>
              \A r \in DOMAIN runs : IsPrefix(EventsOf(runs, r), EventsOf(runs', r))
       /\ LogsOnce =>
              /\ Len(EventsOf(runs', last'.run_id)) = Len(EventsOf(runs, last'.run_id)) + 1
              /\ EventsOf(runs', last'.run_id)[Len(EventsOf(runs', last'.run_id))].verb
                     = last'.cmd]_vars

\* A `stop` line was appended to a log that began with the `start` line.
C29_Witness ==
    /\ last.cmd = "stop"
    /\ last.exit = 0
    /\ Len(EventsOf(runs, last.run_id)) >= 2
    /\ EventsOf(runs, last.run_id)[1].verb = "start"
    /\ EventsOf(runs, last.run_id)[Len(EventsOf(runs, last.run_id))].verb = "stop"

(***************************************************************************)
(* C31. Bulk `session clean --all` or `--config <c>` without --force never *)
(* stops, removes or deletes a session whose container is running; with    *)
(* `--config <c>` only sessions whose config equals c are cleaned; and     *)
(* without --yes a declined confirmation cleans nothing.                   *)
(***************************************************************************)
BulkCleanStep ==
    /\ last'.cmd = "session clean"
    /\ last'.out.args.run_id = <<>>
    /\ last'.out.args.all \/ last'.out.args.config # <<>>

RunsContainer(r) ==
    /\ ContainerName(r) \in DOMAIN containers
    /\ containers[ContainerName(r)].status = "running"

\* Neither the container nor the run directory of r is touched by the step.
SessionKept(r) ==
    /\ (ContainerName(r) \in DOMAIN containers) =>
          /\ ContainerName(r) \in DOMAIN containers'
          /\ containers'[ContainerName(r)] = containers[ContainerName(r)]
    /\ (r \in DOMAIN runs) => (r \in DOMAIN runs' /\ runs'[r] = runs[r])

\* The config a session is listed under, if it is listed at all.
ListedUnder(r, c) ==
    /\ r \in DOMAIN get_all_sessions(containers, runs)
    /\ get_all_sessions(containers, runs)[r].config = c

C31_BulkCleanSpares ==
    [][BulkCleanStep =>
          \A r \in RunIds :
              /\ (RunsContainer(r) /\ ~last'.out.args.force) => SessionKept(r)
              /\ (last'.out.args.config # <<>> /\ ~ListedUnder(r, last'.out.args.config))
                    => SessionKept(r)
              /\ ~last'.out.args.proceed => SessionKept(r)]_vars

\* `session clean --config a` went ahead without --force and cleaned a
\* session while the container of another one is still running.
C31_Witness ==
    /\ last.cmd = "session clean"
    /\ last.out.args.run_id = <<>>
    /\ last.out.args.config = CfgA.name
    /\ last.out.args.proceed
    /\ ~last.out.args.force
    /\ last.out.msg = "Cleaned"
    /\ \E r \in RunIds : RunsContainer(r)
    /\ \E r \in RunIds : r \notin DOMAIN runs /\ ContainerName(r) \notin DOMAIN containers

(***************************************************************************)
(* C32. cleanup_clones(runId) removes only runs/<runId>/worktrees: the run *)
(* directory itself, events.log, claude/ and claude.json, the container    *)
(* and every source repo are unchanged, and it is a no-op when the         *)
(* worktrees directory does not exist.                                     *)
(***************************************************************************)
CleanupStep == last'.cmd = "cleanup_clones"

WorktreesExist(r) == r \in DOMAIN runs /\ runs[r].hasWorktrees

C32_CleanupOnlyWorktrees ==
    [][CleanupStep =>
          /\ containers' = containers
          /\ sources' = sources
          /\ parent' = parent
          /\ images' = images
          /\ DOMAIN runs' = DOMAIN runs
          /\ \A r \in DOMAIN runs :
                /\ runs'[r].events = runs[r].events
                /\ runs'[r].claude = runs[r].claude
                /\ runs'[r].claudeJson = runs[r].claudeJson
                /\ r # last'.run_id => runs'[r] = runs[r]
          /\ WorktreesExist(last'.run_id) =>
                /\ ~runs'[last'.run_id].hasWorktrees
                /\ runs'[last'.run_id].clones = <<>>
          /\ ~WorktreesExist(last'.run_id) => runs' = runs]_vars

\* cleanup_clones returned for a started session: the clones are gone, the
\* log, the agent state and the container are there.
C32_Witness ==
    /\ last.cmd = "cleanup_clones"
    /\ last.run_id \in DOMAIN runs
    /\ ~runs[last.run_id].hasWorktrees
    /\ runs[last.run_id].events # <<>>
    /\ runs[last.run_id].claude
    /\ runs[last.run_id].claudeJson
    /\ ContainerName(last.run_id) \in DOMAIN containers

(***************************************************************************)
(* C33. sync_from_host(runId, C) changes only the remote-tracking refs of  *)
(* each clone: the clone's checked-out branch, its local branch heads and  *)
(* the source repos are unchanged, one `sync` event per synced clone is    *)
(* appended, and when runs/<runId>/worktrees does not exist it fails       *)
(* without touching any repo or appending any event.                       *)
(***************************************************************************)
SyncStep == last'.cmd = "sync"

\* The lines the step appended to the log of run r.
Appended(r) == SubSeq(runs'[r].events, Len(runs[r].events) + 1, Len(runs'[r].events))

\* The clones of run r that the config of the run names.
SyncedClones(r) ==
    {k \in DOMAIN runs[r].clones :
        \E i \in DOMAIN load_config(config_name_for_run(runs, r)).repos :
            load_config(config_name_for_run(runs, r)).repos[i].key = k}

C34_RunDirHasStartLine ==
    (proc.pc = "idle") =>
        \A r \in DOMAIN runs : StartEvents(runs[r].events) # {}

(***************************************************************************)
(* C35. Over any sequence of start, stop, clean, cleanup_clones and gc     *)
(* operations, the event log of a run never contains more than one `start` *)
(* line.                                                                   *)
(***************************************************************************)
C35_OneStartLine ==
    \A r \in DOMAIN runs : Cardinality(StartEvents(runs[r].events)) <= 1

(***************************************************************************)
(* C36. A `stop` event is appended to a run's event log only when a        *)
(* container for that run was actually stopped by the command, in both the *)
(* single-run form and the bulk (--all / --config) form of `session stop`. *)
(***************************************************************************)
StopLines(rs, r) ==
    IF r \in DOMAIN rs
    THEN Cardinality({i \in DOMAIN rs[r].events : rs[r].events[i].verb = "stop"})
    ELSE 0

\* The step took the container of r from running to not running.
StoppedByStep(r) ==
    /\ RunsContainer(r)
    /\ ContainerName(r) \in DOMAIN containers'
    /\ containers'[ContainerName(r)].status # "running"

C36_StopLoggedOnlyIfStopped ==
    [][(last'.cmd = "session stop") =>
          \A r \in DOMAIN runs' :
              (StopLines(runs', r) > StopLines(runs, r)) => StoppedByStep(r)]_vars

(***************************************************************************)
(* C37. Branch resolution keeps sessions apart: for any two sessions that  *)
(* exist at the same time and have clones of the same source repo, the     *)
(* branches their clones were created on differ (resolve_branch never      *)
(* accepts a branch name already used by another live session's clone of   *)
(* that repo, whether or not it has been fetched to the source).           *)
(***************************************************************************)
\* The source repo that the clone k of run r was made from.
SourceOf(r, k) ==
    LET repos == load_config(config_name_for_run(runs, r)).repos
    IN  repos[CHOOSE i \in DOMAIN repos : repos[i].key = k].path

\* The branch that create_clones made in the clone (git checkout -b): its
\* local branch other than the one cloned from the source.
CreatedOn(r, k) == (DOMAIN runs[r].clones[k].branches) \ {Main}

C37_BranchesApart ==
    \A r1, r2 \in DOMAIN runs :
        r1 # r2 =>
            \A k1 \in DOMAIN runs[r1].clones, k2 \in DOMAIN runs[r2].clones :
                SourceOf(r1, k1) = SourceOf(r2, k2)
                    => CreatedOn(r1, k1) \cap CreatedOn(r2, k2) = {}

(***************************************************************************)
(* C38. gc and get_all_sessions agree on clone presence: a run directory   *)
(* without a container is reported dead by gc iff get_all_sessions reports *)
(* that run with state `cleaned`; a run that get_all_sessions reports as   *)
(* `removed` (clones: yes) is never deleted by gc(force=true).             *)
(***************************************************************************)
ReportedAs(r, state) == get_all_sessions(containers, runs)[r].container = state

C38_GcAgreesWithListing ==
    [][GcStep =>
          \A r \in DOMAIN runs :
              /\ ~HasContainer(r) =>
                    (r \in last'.out.findings.dead_run_dirs <=> ReportedAs(r, "cleaned"))
              /\ ReportedAs(r, "removed") => r \in DOMAIN runs']_vars

(***************************************************************************)
(* C39. `session clean <runId>` without --force never stops or removes a   *)
(* container that is running: a running session is only cleaned when       *)
(* --force is given.                                                       *)
(***************************************************************************)
C39_CleanSparesRunning ==
    [][(/\ last'.cmd = "session clean"
        /\ last'.out.args.run_id # <<>>
        /\ ~last'.out.args.force) =>
          \A n \in DOMAIN containers :
              containers[n].status = "running" =>
                  (n \in DOMAIN containers' /\ containers'[n] = containers[n])]_vars

(***************************************************************************)
(* C40. get_project_status returns counts by state that account for every  *)
(* session of the config: running + stopped + cleaned (plus any other     *)
(* reported state count; the result has no other) equals total_sessions,   *)
(* for every set of sessions returned by get_all_sessions, including       *)
(* sessions in state `removed`.                                            *)
(***************************************************************************)
C40_CountsAddUp ==
    (last.cmd = "project status") =>
        last.out.running + last.out.stopped + last.out.cleaned = last.out.total_sessions

====
